---- MODULE Spec2Model ----
(***************************************************************************)
(* A model of the feature-and-dependency resolver of crate_universe        *)
(* (crate_universe/src/metadata/cargo_resolver.rs): CargoResolver::new,    *)
(* CargoResolver::execute and CargoResolver::resolve.                      *)
(*                                                                         *)
(* Strings are TLA+ strings; an Option<T> is the empty set (None) or a     *)
(* singleton (Some); a BTreeSet is a set; a BTreeMap is a function on its  *)
(* key set; a Vec is a sequence.                                           *)
(***************************************************************************)
EXTENDS Integers, Sequences, FiniteSets, TLC

VARIABLES
    workspace_members,   \* CargoResolver.workspace_members
    dependency_resolve,  \* CargoResolver.dependency_resolve: id -> PackageWithDeps
    triples,             \* the caller-supplied triples of execute (in order)
    target_triples,      \* execute: the target-info records of the triples
    pc,                  \* position inside execute / resolve
    host_triples,        \* execute: the triples that pass the host-tools filter
    hi,                  \* execute: index of the current host in host_triples
    ti,                  \* execute: index of the current target in triples
    resolved,            \* resolve: (id, location) -> ResolvedPackageBorrow
    stack,               \* resolve: the work stack of (id, location, features)
    data,                \* execute: crate id -> (config string -> CrateAnnotation)
    last,                \* resolve: the locals of the latest loop iteration
    admitted,            \* resolve: the (id, location, edge, dep_location) yielded
                         \*          by activated_deps so far in this call
    output               \* execute: the returned map, crate id -> Select

vars == <<workspace_members, dependency_resolve, triples, target_triples, pc,
          host_triples, hi, ti, resolved, stack, data, last, admitted, output>>

None == {}
Some(x) == {x}

\* The element of a singleton set: the value of a Some(x), and the way a
\* value is computed once and then named (as in The({F(v) : v \in {e}}))
The(S) == CHOOSE x \in S : TRUE

----------------------------------------------------------------------------
(* String helpers, as the standard library functions the code calls.       *)

StartsWith(s, prefix) ==
    /\ Len(prefix) <= Len(s)
    /\ SubSeq(s, 1, Len(prefix)) = prefix

EndsWith(s, suffix) ==
    /\ Len(suffix) <= Len(s)
    /\ SubSeq(s, Len(s) - Len(suffix) + 1, Len(s)) = suffix

\* str::strip_prefix: None, or Some(rest)
StripPrefix(s, prefix) ==
    IF StartsWith(s, prefix) THEN Some(SubSeq(s, Len(prefix) + 1, Len(s))) ELSE None

\* str::strip_suffix: None, or Some(front)
StripSuffix(s, suffix) ==
    IF EndsWith(s, suffix) THEN Some(SubSeq(s, 1, Len(s) - Len(suffix))) ELSE None

MinOf(S) == CHOOSE m \in S : \A n \in S : m <= n

\* str::split_once(c): None, or Some(<<before the first c, after it>>)
SplitOnce(s, c) ==
    LET at == {i \in 1..Len(s) : SubSeq(s, i, i) = c}
    IN  IF at = {} THEN None
        ELSE Some(<<SubSeq(s, 1, MinOf(at) - 1), SubSeq(s, MinOf(at) + 1, Len(s))>>)

\* The set of elements of a sequence
Range(seq) == {seq[i] : i \in 1..Len(seq)}

----------------------------------------------------------------------------
(* The platform oracle: cfg_expr's built-in target records and the         *)
(* evaluation of a dependency's platform predicate.                        *)

\* The triples a caller can supply, in the order of their strings.
\* "x86_64-unknown-illumo" is a triple cfg_expr has no record of, and so is
\* "x86_64-custom-none", which is not in the list of host tools either.
AllTriples ==
    << "wasm32-unknown-unknown",
       "x86_64-apple-darwin",
       "x86_64-custom-none",
       "x86_64-pc-windows-msvc",
       "x86_64-unknown-illumo",
       "x86_64-unknown-linux-gnu" >>

\* The configuration of the integration tests (supported_platform_triples)
TestTriples ==
    << "wasm32-unknown-unknown",
       "x86_64-apple-darwin",
       "x86_64-pc-windows-msvc",
       "x86_64-unknown-linux-gnu" >>

RUSTC_TRIPLES_WITH_HOST_TOOLS ==
    << "aarch64-apple-darwin",
       "aarch64-unknown-linux-gnu",
       "i686-pc-windows-gnu",
       "i686-pc-windows-msvc",
       "i686-unknown-linux-gnu",
       "x86_64-apple-darwin",
       "x86_64-pc-windows-gnu",
       "x86_64-pc-windows-msvc",
       "x86_64-unknown-linux-gnu",
       "aarch64-pc-windows-msvc",
       "aarch64-unknown-linux-musl",
       "arm-unknown-linux-gnueabi",
       "arm-unknown-linux-gnueabihf",
       "armv7-unknown-linux-gnueabihf",
       "loongarch64-unknown-linux-gnu",
       "loongarch64-unknown-linux-musl",
       "powerpc-unknown-linux-gnu",
       "powerpc64-unknown-linux-gnu",
       "powerpc64le-unknown-linux-gnu",
       "riscv64gc-unknown-linux-gnu",
       "riscv64gc-unknown-linux-musl",
       "s390x-unknown-linux-gnu",
       "x86_64-unknown-freebsd",
       "x86_64-unknown-illumo",
       "x86_64-unknown-linux-musl",
       "x86_64-unknown-netbsd" >>

\* cfg_expr::targets::TargetInfo, with the fields target predicates read
TargetInfo(triple, os, families, arch) ==
    [triple |-> triple, os |-> os, families |-> families, arch |-> arch]

\* cfg_expr::targets::get_builtin_target_by_triple: None for an unknown triple
GetBuiltinTargetByTriple(t) ==
    CASE t = "wasm32-unknown-unknown" ->
            Some(TargetInfo(t, "unknown", {"wasm"}, "wasm32"))
      [] t = "x86_64-apple-darwin" ->
            Some(TargetInfo(t, "macos", {"unix"}, "x86_64"))
      [] t = "x86_64-pc-windows-msvc" ->
            Some(TargetInfo(t, "windows", {"windows"}, "x86_64"))
      [] t = "x86_64-unknown-linux-gnu" ->
            Some(TargetInfo(t, "linux", {"unix"}, "x86_64"))
      [] OTHER -> None

\* A node of a parsed cfg expression.  op is "family", "os", "arch" (target
\* predicates), "other" (any predicate that is not a target predicate),
\* "not", "all" or "any".
Pred(op, val) == [op |-> op, val |-> val, args |-> <<>>]
Comb(op, args) == [op |-> op, val |-> "", args |-> args]

\* cfg_expr::Expression::parse on the expression texts that occur in the
\* inputs: Some(expression), or None when the text does not parse.
ExpressionParse(text) ==
    CASE text = "unix" -> Some(Pred("family", "unix"))
      [] text = "windows" -> Some(Pred("family", "windows"))
      [] text = "not(unix)" -> Some(Comb("not", <<Pred("family", "unix")>>))
      [] text = "target_os = \"macos\"" -> Some(Pred("os", "macos"))
      [] text = "target_arch = \"wasm32\"" -> Some(Pred("arch", "wasm32"))
      [] text = "any(unix, windows)" ->
            Some(Comb("any", <<Pred("family", "unix"), Pred("family", "windows")>>))
      [] text = "all(unix, not(target_os = \"macos\"))" ->
            Some(Comb("all", <<Pred("family", "unix"),
                               Comb("not", <<Pred("os", "macos")>>)>>))
      [] text = "feature = \"nightly\"" -> Some(Pred("other", "nightly"))
      [] OTHER -> None

\* TargetInfo::matches on a target predicate
Matches(info, p) ==
    CASE p.op = "family" -> p.val \in info.families
      [] p.op = "os" -> p.val = info.os
      [] p.op = "arch" -> p.val = info.arch
      [] OTHER -> FALSE

\* Expression::eval with the closure of resolve: target predicates are
\* answered by the info record, every other predicate is false.
RECURSIVE ExprEval(_, _)
ExprEval(e, location_flags) ==
    CASE e.op = "not" -> ~ExprEval(e.args[1], location_flags)
      [] e.op = "all" ->
            \A i \in 1..Len(e.args) : ExprEval(e.args[i], location_flags)
      [] e.op = "any" ->
            \E i \in 1..Len(e.args) : ExprEval(e.args[i], location_flags)
      [] e.op = "other" -> FALSE
      [] OTHER -> Matches(location_flags, e)

\* cargo_platform::Platform: Cfg(expression) or Name(triple), with its Display
\* text ("cfg(unix)", "x86_64-unknown-linux-gnu")
PlatformCfg(text) == [kind |-> "Cfg", repr |-> "cfg(" \o text \o ")"]
PlatformName(name) == [kind |-> "Name", repr |-> name]

\* CfgExpr's Display: the text inside "cfg(" ... ")"
CfgToString(platform) == SubSeq(platform.repr, 5, Len(platform.repr) - 1)

UpperLetters == <<"A", "B", "C", "D", "E", "F", "G", "H", "I", "J", "K", "L", "M",
                  "N", "O", "P", "Q", "R", "S", "T", "U", "V", "W", "X", "Y", "Z">>
LowerLetters == <<"a", "b", "c", "d", "e", "f", "g", "h", "i", "j", "k", "l", "m",
                  "n", "o", "p", "q", "r", "s", "t", "u", "v", "w", "x", "y", "z">>

ToAsciiLowercase(c) ==
    IF \E i \in 1..Len(UpperLetters) : UpperLetters[i] = c
    THEN LowerLetters[CHOOSE i \in 1..Len(UpperLetters) : UpperLetters[i] = c]
    ELSE c

\* str::eq_ignore_ascii_case
EqIgnoreAsciiCase(a, b) ==
    /\ Len(a) = Len(b)
    /\ \A i \in 1..Len(a) :
          ToAsciiLowercase(SubSeq(a, i, i)) = ToAsciiLowercase(SubSeq(b, i, i))

\* Whether the cfg text of a platform parses (the unwrap of the parse result)
CfgParses(platform) ==
    platform.kind = "Cfg" => ExpressionParse(CfgToString(platform)) # None

\* The platform test if a triple were compared as it is written
PlatformMatchesExactCase(platform, location_flags) ==
    IF platform.kind = "Cfg"
    THEN ExprEval(CHOOSE e \in ExpressionParse(CfgToString(platform)) : TRUE,
                  location_flags)
    ELSE location_flags.triple = platform.repr

\* The platform test of resolve: does the predicate hold of location_flags
PlatformMatches(platform, location_flags) ==
    IF platform.kind = "Cfg"
    THEN ExprEval(CHOOSE e \in ExpressionParse(CfgToString(platform)) : TRUE,
                  location_flags)
    ELSE EqIgnoreAsciiCase(location_flags.triple, platform.repr)


----------------------------------------------------------------------------
(* The input: cargo_metadata::Metadata.                                    *)

\* semver::Version, as far as matching reads it: a number and whether the
\* version is a pre-release
Version(major, pre) == [major |-> major, pre |-> pre]

\* The order of versions: a pre-release sorts before its release
VersionKey(v) == 2 * v.major + (IF v.pre THEN 0 ELSE 1)

\* semver::Comparator
Comparator(op, major, pre) == [op |-> op, version |-> Version(major, pre)]

ComparatorMatches(c, v) ==
    CASE c.op = "=" -> v = c.version
      [] c.op = ">=" -> VersionKey(v) >= VersionKey(c.version)
      [] c.op = "<" -> VersionKey(v) < VersionKey(c.version)
      [] OTHER -> v.major = c.version.major /\ VersionKey(v) >= VersionKey(c.version)

\* semver::VersionReq::matches: every comparator matches, and a pre-release
\* version needs a comparator that names a pre-release of the same version
ReqMatches(req, v) ==
    /\ \A i \in 1..Len(req) : ComparatorMatches(req[i], v)
    /\ v.pre => \E i \in 1..Len(req) :
                    req[i].version.pre /\ req[i].version.major = v.major

\* cargo_metadata::Dependency
CargoDependency(name, kind, features) ==
    [name |-> name, rename |-> None, kind |-> kind, optional |-> FALSE,
     uses_default_features |-> TRUE, features |-> features, target |-> None,
     req |-> <<>>, source |-> None]

\* cargo_metadata::Target
Target(name, kinds) == [name |-> name, kind |-> kinds]

\* cargo_metadata::Package
Package(id, name, major, features, dependencies, targets) ==
    [id |-> id, name |-> name, version |-> Version(major, FALSE), source |-> None,
     features |-> features, dependencies |-> dependencies, targets |-> targets,
     links |-> None]

\* cargo_metadata::Metadata
Metadata(packages, members) == [packages |-> packages, workspace_members |-> members]

\* CrateId::from(&Package): the name and the version of the package
CrateId(package) == [name |-> package.name, version |-> package.version]

----------------------------------------------------------------------------
(* CargoResolver::new                                                      *)

\* itertools into_group_map_by(name): the packages of a name, in input order
RECURSIVE GroupByName(_, _)
GroupByName(packages, name) ==
    IF packages = <<>> THEN <<>>
    ELSE (IF Head(packages).name = name THEN <<Head(packages)>> ELSE <<>>)
            \o GroupByName(Tail(packages), name)

\* Insert p into a sequence sorted by version, after the elements that do not
\* sort after it (sort_by_key is stable)
RECURSIVE InsertByVersion(_, _)
InsertByVersion(sorted, p) ==
    IF sorted = <<>> THEN <<p>>
    ELSE IF VersionKey(Head(sorted).version) <= VersionKey(p.version)
         THEN <<Head(sorted)>> \o InsertByVersion(Tail(sorted), p)
         ELSE <<p>> \o sorted

\* packages.sort_by_key(|p| &p.version): lowest version first
RECURSIVE SortByVersion(_)
SortByVersion(packages) ==
    IF packages = <<>> THEN <<>>
    ELSE InsertByVersion(SortByVersion(SubSeq(packages, 1, Len(packages) - 1)),
                         packages[Len(packages)])

PackagesByName(metadata, name) == SortByVersion(GroupByName(metadata.packages, name))

\* The closure if it did not compare the sources
CandidateMatchesAnySource(dep, pkg) ==
    \/ ReqMatches(dep.req, pkg.version)
    \/ (dep.req = <<>> /\ \E s \in dep.source : StartsWith(s, "git+"))

\* The closure given to find(): does the candidate pkg satisfy dep
CandidateMatches(dep, pkg) ==
    IF \/ ReqMatches(dep.req, pkg.version)
       \/ (dep.req = <<>> /\ \E s \in dep.source : StartsWith(s, "git+"))
    THEN \/ (pkg.source = None /\ dep.source = None)
         \/ \E repr \in pkg.source : \E dep_src \in dep.source :
                StartsWith(repr, dep_src)
    ELSE FALSE

\* The search if it fell back on the highest version of the name when no
\* candidate matches
MatchedPkgFallsBack(metadata, dep) ==
    LET group == PackagesByName(metadata, dep.name)
        hits == {i \in 1..Len(group) : CandidateMatches(dep, group[i])}
    IN  IF group = <<>> THEN None
        ELSE IF hits = {} THEN Some(group[Len(group)])
        ELSE Some(group[CHOOSE i \in hits : \A j \in hits : j <= i])

\* .iter().rev().find(..): None, or Some(the matching package of the highest
\* position in the sorted group)
MatchedPkg(metadata, dep) ==
    LET group == PackagesByName(metadata, dep.name)
        hits == {i \in 1..Len(group) : CandidateMatches(dep, group[i])}
    IN  IF hits = {} THEN None
        ELSE Some(group[CHOOSE i \in hits : \A j \in hits : j <= i])

\* The closure if it kept the development dependencies of every package
ResolveDepKeepsDevelopment(metadata, is_workspace_member, dep) ==
    IF MatchedPkg(metadata, dep) = None THEN None
    ELSE LET matched_pkg == CHOOSE m \in MatchedPkg(metadata, dep) : TRUE
         IN  Some([id |-> matched_pkg.id,
                   name |-> IF dep.rename = None THEN dep.name
                            ELSE CHOOSE r \in dep.rename : TRUE,
                   is_alias |-> dep.rename # None,
                   kind |-> dep.kind,
                   target |-> dep.target,
                   features |-> dep.features,
                   optional |-> dep.optional,
                   use_default_featues |-> dep.uses_default_features])

\* The filter_map closure over package.dependencies: None (the edge is
\* dropped), or Some(ResolveDep)
ResolveDep(metadata, is_workspace_member, dep) ==
    IF dep.kind = "Development" /\ ~is_workspace_member THEN None
    ELSE IF MatchedPkg(metadata, dep) = None THEN None
    ELSE LET matched_pkg == CHOOSE m \in MatchedPkg(metadata, dep) : TRUE
         IN  Some([id |-> matched_pkg.id,
                   name |-> IF dep.rename = None THEN dep.name
                            ELSE CHOOSE r \in dep.rename : TRUE,
                   is_alias |-> dep.rename # None,
                   kind |-> dep.kind,
                   target |-> dep.target,
                   features |-> dep.features,
                   optional |-> dep.optional,
                   use_default_featues |-> dep.uses_default_features])

RECURSIVE ResolveDeps(_, _, _)
ResolveDeps(metadata, is_workspace_member, dependencies) ==
    IF dependencies = <<>> THEN <<>>
    ELSE LET d == ResolveDep(metadata, is_workspace_member, Head(dependencies))
         IN  (IF d = None THEN <<>> ELSE <<CHOOSE r \in d : TRUE>>)
                \o ResolveDeps(metadata, is_workspace_member, Tail(dependencies))

\* The loop if it did not push what a newly inserted feature lists
RECURSIVE FlattenLoopOneLevel(_, _, _)
FlattenLoopOneLevel(package, flat, stk) ==
    IF stk = <<>> THEN flat
    ELSE LET feat == stk[Len(stk)]
             rest == SubSeq(stk, 1, Len(stk) - 1)
         IN  IF feat \notin DOMAIN package.features
             THEN FlattenLoopOneLevel(package, flat, rest)
             ELSE FlattenLoopOneLevel(package, flat \cup {feat}, rest)

\* The while loop that flattens one feature: pop the last element of the
\* stack; skip it when the package does not declare it; when it is new in
\* flat, push the features it lists.
RECURSIVE FlattenLoop(_, _, _)
FlattenLoop(package, flat, stk) ==
    IF stk = <<>> THEN flat
    ELSE LET feat == stk[Len(stk)]
             rest == SubSeq(stk, 1, Len(stk) - 1)
         IN  IF feat \notin DOMAIN package.features
             THEN FlattenLoop(package, flat, rest)
             ELSE IF feat \notin flat
                  THEN FlattenLoop(package, flat \cup {feat},
                                   rest \o package.features[feat])
                  ELSE FlattenLoop(package, flat, rest)

FlattenedFeatures(package) ==
    [feature \in DOMAIN package.features |->
        FlattenLoop(package, {feature}, package.features[feature])]

IsProcMacro(package) ==
    \E i \in 1..Len(package.targets) : "proc-macro" \in package.targets[i].kind

LibKinds == {"cdylib", "dylib", "lib", "proc-macro", "rlib", "staticlib"}

\* find(..).map(|t| t.name): the name of the first library target, if any
LibraryTargetName(package) ==
    LET libs == {i \in 1..Len(package.targets) :
                    package.targets[i].kind \cap LibKinds # {}}
    IN  IF libs = {} THEN None ELSE Some(package.targets[MinOf(libs)].name)

PackageWithDeps(metadata, package) ==
    [package |-> package,
     deps |-> ResolveDeps(metadata, package.id \in metadata.workspace_members,
                          package.dependencies),
     is_proc_macro |-> IsProcMacro(package),
     flattened_features |-> FlattenedFeatures(package),
     library_target_name |-> LibraryTargetName(package)]

PackageIds(metadata) == {metadata.packages[i].id : i \in 1..Len(metadata.packages)}

PackageById(metadata, id) ==
    metadata.packages[CHOOSE i \in 1..Len(metadata.packages) :
                          metadata.packages[i].id = id]

New(metadata) ==
    [workspace_members |-> metadata.workspace_members \cap PackageIds(metadata),
     dependency_resolve |->
        [id \in PackageIds(metadata) |->
            PackageWithDeps(metadata, PackageById(metadata, id))]]


----------------------------------------------------------------------------
(* CargoResolver::resolve: the work loop                                    *)

\* The order of strings (Ord for str), on the characters that occur in ids
CharOrder ==
    " \"#(),-.0123456789=ABCDEFGHIJKLMNOPQRSTUVWXYZ_abcdefghijklmnopqrstuvwxyz"

CharRank(c) == CHOOSE i \in 1..Len(CharOrder) : SubSeq(CharOrder, i, i) = c

RECURSIVE StrLess(_, _)
StrLess(a, b) ==
    IF b = "" THEN FALSE
    ELSE IF a = "" THEN TRUE
    ELSE IF Head(a) = Head(b) THEN StrLess(Tail(a), Tail(b))
    ELSE CharRank(Head(a)) < CharRank(Head(b))

\* The elements of a set of strings in ascending order (BTreeSet iteration)
RECURSIVE SortedSeq(_)
SortedSeq(S) ==
    IF S = {} THEN <<>>
    ELSE The({The({<<m>> \o SortedSeq(rest) : rest \in {S \ {m}}}) :
                m \in {CHOOSE x \in S : \A y \in S \ {x} : StrLess(x, y)}})

DeclaredFeatures(id) == DOMAIN dependency_resolve[id].package.features

\* The initial stack if the members were pushed with no features requested
SeedStackNoFeatures ==
    LET ids == SortedSeq(workspace_members)
    IN  [i \in 1..Len(ids) |-> <<ids[i], "Target", {}>>]

\* The initial stack of resolve: every workspace member at Target with all
\* the features it declares
SeedStack ==
    LET ids == SortedSeq(workspace_members)
    IN  [i \in 1..Len(ids) |-> <<ids[i], "Target", DeclaredFeatures(ids[i])>>]

\* The union of the precomputed closures of the popped features
VisitFlattened(id, features) ==
    UNION {dependency_resolve[id].flattened_features[f] :
              f \in features \cap DOMAIN dependency_resolve[id].flattened_features}

\* FeatureDep
Enabled == [tag |-> "Enabled", name |-> "", optional |-> FALSE]
Feature(name, optional) == [tag |-> "Feature", name |-> name, optional |-> optional]

\* The filter_map closure that builds enabled_deps: None, or
\* Some(<<dep, FeatureDep>>)
FeatureDepOf(feature) ==
    IF StripPrefix(feature, "dep:") # None
    THEN Some(<<CHOOSE d \in StripPrefix(feature, "dep:") : TRUE, Enabled>>)
    ELSE IF SplitOnce(feature, "/") # None
    THEN LET parts == CHOOSE x \in SplitOnce(feature, "/") : TRUE
             stripped == StripSuffix(parts[1], "?")
         IN  IF stripped # None
             THEN Some(<<CHOOSE d \in stripped : TRUE, Feature(parts[2], TRUE)>>)
             ELSE Some(<<parts[1], Feature(parts[2], FALSE)>>)
    ELSE None

\* enabled_deps, as the set of its (dep, FeatureDep) pairs
EnabledDeps(id, flattened_features) ==
    UNION {FeatureDepOf(expr) :
              expr \in UNION {Range(dependency_resolve[id].package.features[f]) :
                                 f \in flattened_features
                                          \cap DOMAIN dependency_resolve[id].package.features}}

\* enabled_deps.get(name), flattened: the FeatureDeps recorded for a name
EnabledDepsGet(enabled_deps, name) == {p[2] : p \in {q \in enabled_deps : q[1] = name}}

\* The location if a development dependency were built for the host like a
\* build dependency
DepLocationDevIsHost(location, dep) ==
    IF location = "Target"
       /\ (dep.kind \in {"Build", "Development"}
              \/ dependency_resolve[dep.id].is_proc_macro)
    THEN "Host"
    ELSE location

\* The location if a proc macro were resolved like a library
DepLocationIgnoresProcMacro(location, dep) ==
    IF location = "Target" /\ dep.kind = "Build" THEN "Host" ELSE location

\* The location a dependency is resolved at
DepLocation(location, dep) ==
    IF location = "Target"
       /\ (dep.kind = "Build" \/ dependency_resolve[dep.id].is_proc_macro)
    THEN "Host"
    ELSE location

\* The optional test if a weak reference name?/feature switched the
\* dependency on like name/feature
OptionalEnabledAnyFeature(enabled_deps, dep) ==
    EnabledDepsGet(enabled_deps, dep.name) # {}

\* The optional test of activated_deps: is an optional dependency switched on
OptionalEnabled(enabled_deps, dep) ==
    \E o \in EnabledDepsGet(enabled_deps, dep.name) :
        o.tag = "Enabled" \/ (o.tag = "Feature" /\ o.optional = FALSE)

\* The closure if every predicate were evaluated against the host
ActivatedDepGatesOnHost(location, enabled_deps, host, target, dep) ==
    IF \E cfg_expr \in dep.target : ~PlatformMatches(cfg_expr, host)
    THEN None
    ELSE IF dep.optional /\ ~OptionalEnabled(enabled_deps, dep)
    THEN None
    ELSE Some(DepLocation(location, dep))

\* The filter_map closure of activated_deps: None, or Some(dep_location)
ActivatedDep(location, enabled_deps, host, target, dep) ==
    LET dep_location == DepLocation(location, dep)
        location_flags == IF dep_location = "Host" THEN host ELSE target
    IN  IF \E cfg_expr \in dep.target : ~PlatformMatches(cfg_expr, location_flags)
        THEN None
        ELSE IF dep.optional /\ ~OptionalEnabled(enabled_deps, dep)
        THEN None
        ELSE Some(dep_location)

\* A cfg predicate of some dependency of the package fails to parse: the
\* unwrap of the parse result panics
VisitPanics(id) ==
    \E i \in 1..Len(dependency_resolve[id].deps) :
        \E cfg_expr \in dependency_resolve[id].deps[i].target : ~CfgParses(cfg_expr)

DepBorrowDefault == [target |-> {}, features |-> {}, aliases_optional |-> {}]
ResolvedPackageDefault == [features |-> {}, deps |-> <<>>]

\* f with key k set to v (BTreeMap insert)
MapPut(f, k, v) == [x \in DOMAIN f \cup {k} |-> IF x = k THEN v ELSE f[x]]

\* The dep record if default were never added to it
ResolvedDepNoDefault(old, enabled_deps, dep) ==
    [target |-> old.target \cup dep.target,
     aliases_optional |->
        old.aliases_optional
            \cup {<<IF dep.is_alias THEN Some(dep.name) ELSE None, dep.optional>>},
     features |->
        old.features
            \cup Range(dep.features)
            \cup {f.name : f \in {o \in EnabledDepsGet(enabled_deps, dep.name) :
                                     o.tag = "Feature"}}]

\* The dep record if the features of the edge replaced those of the record
ResolvedDepReplacesFeatures(old, enabled_deps, dep) ==
    [target |-> old.target \cup dep.target,
     aliases_optional |->
        old.aliases_optional
            \cup {<<IF dep.is_alias THEN Some(dep.name) ELSE None, dep.optional>>},
     features |->
        (IF dep.use_default_featues /\ "default" \in DeclaredFeatures(dep.id)
         THEN {"default"} ELSE {})
            \cup Range(dep.features)
            \cup {f.name : f \in {o \in EnabledDepsGet(enabled_deps, dep.name) :
                                     o.tag = "Feature"}}]

\* The dep record of an activated dependency after the body of the for loop
ResolvedDep(old, enabled_deps, dep) ==
    LET should_default ==
            /\ dep.use_default_featues
            /\ "default" \in DeclaredFeatures(dep.id)
    IN  [target |-> old.target \cup dep.target,
         aliases_optional |->
            old.aliases_optional
                \cup {<<IF dep.is_alias THEN Some(dep.name) ELSE None, dep.optional>>},
         features |->
            old.features
                \cup (IF should_default THEN {"default"} ELSE {})
                \cup Range(dep.features)
                \cup {f.name : f \in {o \in EnabledDepsGet(enabled_deps, dep.name) :
                                         o.tag = "Feature"}}]

\* The test if a destination without entry were pushed only when the dep
\* record has features
ShouldPushForFeaturesOnly(res, dep, dep_location, resolved_dep) ==
    \E feat \in resolved_dep.features :
        \/ <<dep.id, dep_location>> \notin DOMAIN res
        \/ feat \notin res[<<dep.id, dep_location>>].features

\* The test if a destination were pushed only while it has no entry
ShouldPushUnresolved(res, dep, dep_location, resolved_dep) ==
    <<dep.id, dep_location>> \notin DOMAIN res

\* The test if every activated destination were pushed
ShouldPushAlways(res, dep, dep_location, resolved_dep) == TRUE

\* Whether the destination is pushed: it is not resolved yet, or a feature of
\* the dep record is missing from its features
ShouldPush(res, dep, dep_location, resolved_dep) ==
    \/ <<dep.id, dep_location>> \notin DOMAIN res
    \/ \E feat \in resolved_dep.features :
          feat \notin res[<<dep.id, dep_location>>].features

\* One turn of the for loop over activated_deps, on [resolved, stack]
ActivateDep(st, id, location, enabled_deps, dep, dep_location) ==
    LET pkg == st.resolved[<<id, location>>]
        key == <<dep.id, dep_location, dep.kind>>
        old == IF key \in DOMAIN pkg.deps THEN pkg.deps[key] ELSE DepBorrowDefault
        resolved_dep == ResolvedDep(old, enabled_deps, dep)
        res == [st.resolved EXCEPT ![<<id, location>>].deps =
                    MapPut(pkg.deps, key, resolved_dep)]
    IN  [resolved |-> res,
         stack |-> IF ShouldPush(res, dep, dep_location, resolved_dep)
                   THEN Append(st.stack, <<dep.id, dep_location, resolved_dep.features>>)
                   ELSE st.stack]

\* The for loop over the dependencies of the package, taken in the order
\* given by the sequence of indices
RECURSIVE ActivateDeps(_, _, _, _, _, _, _)
ActivateDeps(st, id, location, enabled_deps, host, target, order) ==
    IF order = <<>> THEN st
    ELSE LET dep == dependency_resolve[id].deps[Head(order)]
             a == ActivatedDep(location, enabled_deps, host, target, dep)
         IN  The({ActivateDeps(next, id, location, enabled_deps, host, target,
                               Tail(order)) :
                    next \in {IF a = None THEN st
                              ELSE ActivateDep(st, id, location, enabled_deps, dep,
                                               The(a))}})

\* any_changed if every visit counted as a change
AnyChangedAlways(res, id, location, flattened_features) == TRUE

\* any_changed after the features of the visit are inserted
AnyChanged(res, id, location, flattened_features) ==
    \/ <<id, location>> \notin DOMAIN res
    \/ \E feature \in flattened_features : feature \notin res[<<id, location>>].features

\* seq without its i-th element
RemoveAt(seq, i) == SubSeq(seq, 1, i - 1) \o SubSeq(seq, i + 1, Len(seq))

\* One iteration of the while loop on [resolved, stack]: the element at
\* position i of the stack is taken (the code pops the last one) and the
\* dependencies are walked in the given order (the code walks them in the
\* order of deps).
Visit(st, host, target, i, order) ==
    LET id == st.stack[i][1]
        location == st.stack[i][2]
        features == st.stack[i][3]
        flattened_features == VisitFlattened(id, features)
        any_changed == AnyChanged(st.resolved, id, location, flattened_features)
        old == IF <<id, location>> \in DOMAIN st.resolved
               THEN st.resolved[<<id, location>>] ELSE ResolvedPackageDefault
        res == MapPut(st.resolved, <<id, location>>,
                      [old EXCEPT !.features = @ \cup flattened_features])
        popped == [resolved |-> res, stack |-> RemoveAt(st.stack, i)]
    IN  IF ~any_changed THEN popped
        ELSE The({ActivateDeps(p, id, location, enabled_deps, host, target, order) :
                    p \in {popped},
                    enabled_deps \in {EnabledDeps(id, flattened_features)}})

\* 1, 2, .., n
Identity(n) == [k \in 1..n |-> k]


----------------------------------------------------------------------------
(* CargoResolver::resolve: the annotations written into data               *)

CrateAnnotationDefault ==
    [features |-> {}, deps |-> {}, deps_dev |-> {}, proc_macro_deps |-> {},
     proc_macro_deps_dev |-> {}, build_deps |-> {}, build_proc_macro_deps |-> {},
     build_link_deps |-> {}]

DepBuckets ==
    {"deps", "deps_dev", "proc_macro_deps", "proc_macro_deps_dev", "build_deps",
     "build_proc_macro_deps", "build_link_deps"}

\* The key if every annotation of a call were stored under its host triple
ConfigOfAlwaysHost(location, host, target) == host.triple

\* The key if every annotation of a call were stored under its target triple
ConfigOfAlwaysTarget(location, host, target) == target.triple

\* The key the annotation of a resolved (id, location) is stored under
ConfigOf(location, host, target) ==
    IF location = "Host" THEN host.triple ELSE target.triple

\* The features contributed if a member's own features were taken, as for
\* any other package
AnnotatedFeaturesOwnState(res, id, location) == res[<<id, location>>].features

\* The features a resolved (id, location) contributes to its crate
AnnotatedFeatures(res, id, location) ==
    IF id \in workspace_members
    THEN UNION {UNION {res[e].deps[k].features :
                          k \in {<<id, "Target", kind>> :
                                    kind \in {"Normal", "Development", "Build"}}
                                   \cap DOMAIN res[e].deps} :
                   e \in {e2 \in DOMAIN res : e2[2] = "Target" /\ e2[1] # id}}
    ELSE res[<<id, location>>].features

\* The Dependency values built from one dep record
DependenciesOf(dep_id, dep) ==
    {[id |-> CrateId(dependency_resolve[dep_id].package),
      target_name |-> CHOOSE n \in dependency_resolve[dep_id].library_target_name : TRUE,
      alias |-> ao[1],
      features |-> dep.features,
      optional |-> ao[2]] : ao \in dep.aliases_optional}

\* push_data if it chose the bucket by the kind of the edge alone
BucketsOfIgnoresProcMacro(dep_id, kind) ==
    LET dep_pkg == dependency_resolve[dep_id]
    IN  (IF kind = "Normal" /\ ~dep_pkg.is_proc_macro /\ dep_pkg.package.links # None
         THEN {"build_link_deps"} ELSE {})
        \cup
        {CASE kind = "Normal" -> "deps"
           [] kind = "Development" -> "deps_dev"
           [] OTHER -> "build_deps"}

\* push_data if a links name sufficed, whatever the kind of the edge
BucketsOfLinksOfAnyKind(dep_id, kind) ==
    LET dep_pkg == dependency_resolve[dep_id]
    IN  (IF ~dep_pkg.is_proc_macro /\ dep_pkg.package.links # None
         THEN {"build_link_deps"} ELSE {})
        \cup
        {CASE kind = "Normal" /\ dep_pkg.is_proc_macro -> "proc_macro_deps"
           [] kind = "Normal" /\ ~dep_pkg.is_proc_macro -> "deps"
           [] kind = "Development" /\ dep_pkg.is_proc_macro -> "proc_macro_deps_dev"
           [] kind = "Development" /\ ~dep_pkg.is_proc_macro -> "deps_dev"
           [] kind = "Build" /\ dep_pkg.is_proc_macro -> "build_proc_macro_deps"
           [] OTHER -> "build_deps"}

\* push_data: the fields of the annotation a dependency is inserted into
BucketsOf(dep_id, kind) ==
    LET dep_pkg == dependency_resolve[dep_id]
    IN  (IF kind = "Normal" /\ ~dep_pkg.is_proc_macro /\ dep_pkg.package.links # None
         THEN {"build_link_deps"} ELSE {})
        \cup
        {CASE kind = "Normal" /\ dep_pkg.is_proc_macro -> "proc_macro_deps"
           [] kind = "Normal" /\ ~dep_pkg.is_proc_macro -> "deps"
           [] kind = "Development" /\ dep_pkg.is_proc_macro -> "proc_macro_deps_dev"
           [] kind = "Development" /\ ~dep_pkg.is_proc_macro -> "deps_dev"
           [] kind = "Build" /\ dep_pkg.is_proc_macro -> "build_proc_macro_deps"
           [] OTHER -> "build_deps"}

\* The keys a dep record is stored under: the key of the package, or the
\* text of each platform of the record
DepConfigs(dep, config) ==
    IF dep.target = {} THEN {config} ELSE {t.repr : t \in dep.target}

\* <<crate, key, feature>> for every feature inserted into data
FeatureFacts(res, host, target) ==
    UNION {{<<CrateId(dependency_resolve[e[1]].package),
              ConfigOf(e[2], host, target), f>> :
               f \in AnnotatedFeatures(res, e[1], e[2])} : e \in DOMAIN res}

\* <<crate, key, field, Dependency>> for every dependency inserted into data
DepFacts(res, host, target) ==
    UNION {UNION {UNION {{<<CrateId(dependency_resolve[e[1]].package), c, b, d>> :
                            c \in DepConfigs(res[e].deps[k], ConfigOf(e[2], host, target)),
                            b \in BucketsOf(k[1], k[3])} :
                         d \in DependenciesOf(k[1], res[e].deps[k])} :
                  k \in DOMAIN res[e].deps} : e \in DOMAIN res}

\* The unwrap of library_target_name panics: a dep record names a package
\* that has no library target
AnnotatePanics(res) ==
    \E e \in DOMAIN res : \E k \in DOMAIN res[e].deps :
        dependency_resolve[k[1]].library_target_name = None

\* data after the loop if an annotation the call writes to were begun anew
\* instead of added to
AnnotateOverwrites(old, res, host, target) ==
    LET ff == FeatureFacts(res, host, target)
        df == DepFacts(res, host, target)
        crates == DOMAIN old
                    \cup {CrateId(dependency_resolve[e[1]].package) : e \in DOMAIN res}
        before(c) == IF c \in DOMAIN old THEN old[c] ELSE <<>>
        written(c) == {x[2] : x \in {y \in ff : y[1] = c}}
                        \cup {x[2] : x \in {y \in df : y[1] = c}}
        ann(c, cfg) == IF cfg \in DOMAIN before(c) /\ cfg \notin written(c)
                       THEN before(c)[cfg]
                       ELSE CrateAnnotationDefault
    IN  [c \in crates |->
            [cfg \in DOMAIN before(c) \cup written(c) |->
                [field \in DOMAIN CrateAnnotationDefault |->
                    ann(c, cfg)[field] \cup
                        IF field = "features"
                        THEN {x[3] : x \in {y \in ff : y[1] = c /\ y[2] = cfg}}
                        ELSE {x[4] : x \in {y \in df : /\ y[1] = c /\ y[2] = cfg
                                                      /\ y[3] = field}}]]]

\* data after the loop if a crate got its entry only with the first element
\* written for it
AnnotateOnlyWritten(old, res, host, target) ==
    LET ff == FeatureFacts(res, host, target)
        df == DepFacts(res, host, target)
        crates == DOMAIN old \cup {y[1] : y \in ff} \cup {y[1] : y \in df}
        before(c) == IF c \in DOMAIN old THEN old[c] ELSE <<>>
        configs(c) == DOMAIN before(c)
                        \cup {x[2] : x \in {y \in ff : y[1] = c}}
                        \cup {x[2] : x \in {y \in df : y[1] = c}}
        ann(c, cfg) == IF cfg \in DOMAIN before(c) THEN before(c)[cfg]
                       ELSE CrateAnnotationDefault
    IN  [c \in crates |->
            [cfg \in configs(c) |->
                [field \in DOMAIN CrateAnnotationDefault |->
                    ann(c, cfg)[field] \cup
                        IF field = "features"
                        THEN {x[3] : x \in {y \in ff : y[1] = c /\ y[2] = cfg}}
                        ELSE {x[4] : x \in {y \in df : /\ y[1] = c /\ y[2] = cfg
                                                      /\ y[3] = field}}]]]

\* data after the for loop over resolved
Annotate(old, res, host, target) ==
    LET ff == FeatureFacts(res, host, target)
        df == DepFacts(res, host, target)
        crates == DOMAIN old
                    \cup {CrateId(dependency_resolve[e[1]].package) : e \in DOMAIN res}
        before(c) == IF c \in DOMAIN old THEN old[c] ELSE <<>>
        configs(c) == DOMAIN before(c)
                        \cup {x[2] : x \in {y \in ff : y[1] = c}}
                        \cup {x[2] : x \in {y \in df : y[1] = c}}
        ann(c, cfg) == IF cfg \in DOMAIN before(c) THEN before(c)[cfg]
                       ELSE CrateAnnotationDefault
    IN  [c \in crates |->
            [cfg \in configs(c) |->
                [field \in DOMAIN CrateAnnotationDefault |->
                    ann(c, cfg)[field] \cup
                        IF field = "features"
                        THEN {x[3] : x \in {y \in ff : y[1] = c /\ y[2] = cfg}}
                        ELSE {x[4] : x \in {y \in df : /\ y[1] = c /\ y[2] = cfg
                                                      /\ y[3] = field}}]]]

----------------------------------------------------------------------------
(* CargoResolver::execute: the collapse of a crate's per-configuration     *)
(* annotations into a Select (common part and per-configuration residue)   *)

\* CrateAnnotation::is_empty
AnnotationIsEmpty(a) == \A field \in DOMAIN a : a[field] = {}

\* CrateAnnotation::merge
AnnotationMerge(a, other) == [field \in DOMAIN a |-> a[field] \cup other[field]]

\* CrateAnnotation::diff
AnnotationDiff(a, other) == [field \in DOMAIN a |-> a[field] \ other[field]]

\* intersect if it kept what either side holds
AnnotationIntersectKeepsBoth(a, other) ==
    [field \in DOMAIN a |-> a[field] \cup other[field]]

\* CrateAnnotation::intersect
AnnotationIntersect(a, other) == [field \in DOMAIN a |-> a[field] \cap other[field]]

\* Select::new()
SelectNew == [common |-> CrateAnnotationDefault, selects |-> <<>>]

\* selects.retain(|_, item| { item.diff(common); !item.is_empty() })
Retain(selects, common) ==
    The({[k \in {x \in DOMAIN selects : ~AnnotationIsEmpty(diffed[x])} |-> diffed[k]] :
           diffed \in {[k \in DOMAIN selects |-> AnnotationDiff(selects[k], common)]}})

\* Selectable::insert for CrateAnnotation
SelectableInsert(this, value, configuration) ==
    IF AnnotationIsEmpty(value) THEN this
    ELSE The({[common |-> common, selects |-> Retain(selects, common)] :
                common \in {IF configuration = None
                            THEN AnnotationMerge(this.common, value)
                            ELSE this.common},
                selects \in {IF configuration = None THEN this.selects
                             ELSE LET c == The(configuration)
                                  IN  MapPut(this.selects, c,
                                             IF c \in DOMAIN this.selects
                                             THEN AnnotationMerge(this.selects[c], value)
                                             ELSE value)}})

\* merge if it left the merged selects as they are
SelectableMergeNoRetain(this, other) ==
    [common |-> AnnotationMerge(this.common, other.common),
     selects |->
        [k \in DOMAIN this.selects \cup DOMAIN other.selects |->
            IF k \in DOMAIN this.selects /\ k \in DOMAIN other.selects
            THEN AnnotationMerge(this.selects[k], other.selects[k])
            ELSE IF k \in DOMAIN this.selects THEN this.selects[k]
            ELSE other.selects[k]]]

\* Selectable::merge for CrateAnnotation
SelectableMerge(this, other) ==
    The({[common |-> common, selects |-> Retain(selects, common)] :
           common \in {AnnotationMerge(this.common, other.common)},
           selects \in
              {[k \in DOMAIN this.selects \cup DOMAIN other.selects |->
                  IF k \in DOMAIN this.selects /\ k \in DOMAIN other.selects
                  THEN AnnotationMerge(this.selects[k], other.selects[k])
                  ELSE IF k \in DOMAIN this.selects THEN this.selects[k]
                  ELSE other.selects[k]]}})

\* The intersection of the values of selects, taken in key order
RECURSIVE IntersectAll(_, _, _)
IntersectAll(intersection, selects, keys) ==
    IF keys = <<>> THEN intersection
    ELSE IntersectAll(AnnotationIntersect(intersection, selects[Head(keys)]),
                      selects, Tail(keys))

\* optimize if it lifted the first value of selects without intersecting it
\* with the others
SelectableOptimizeLiftsFirst(this) ==
    LET keys == SortedSeq(DOMAIN this.selects)
    IN  IF keys = <<>> THEN this
        ELSE LET common == AnnotationMerge(this.common, this.selects[Head(keys)])
             IN  [common |-> common, selects |-> Retain(this.selects, common)]

\* Selectable::optimize for CrateAnnotation
SelectableOptimize(this) ==
    IF DOMAIN this.selects = {} THEN this
    ELSE The({IF AnnotationIsEmpty(intersection) THEN this
              ELSE The({[common |-> common, selects |-> Retain(this.selects, common)] :
                          common \in {AnnotationMerge(this.common, intersection)}}) :
                intersection \in
                    {The({IntersectAll(this.selects[Head(keys)], this.selects,
                                       Tail(keys)) :
                            keys \in {SortedSeq(DOMAIN this.selects)}})}})

\* Select::optimize(targets): the pass of Selectable::optimize, made only
\* when every configured triple has a value in selects, so that what is
\* lifted into common holds for every configured triple
SelectOptimize(this, targets) ==
    IF targets \subseteq DOMAIN this.selects THEN SelectableOptimize(this) ELSE this

\* The fold of execute over the configurations of one crate, in key order
RECURSIVE InsertAll(_, _, _)
InsertAll(select, value, configs) ==
    IF configs = <<>> THEN select
    ELSE The({InsertAll(next, value, Tail(configs)) :
                next \in {SelectableInsert(select, value[Head(configs)],
                                           Some(Head(configs)))}})

\* The Select execute returns for one crate
Collapse(value, targets) ==
    The({SelectOptimize(select, targets) :
           select \in {InsertAll(SelectNew, value, SortedSeq(DOMAIN value))}})

----------------------------------------------------------------------------
(* The inputs the model is run on                                          *)

\* The largest number of triples a caller supplies (besides TestTriples)
MaxTriples == 2

Lib(name) == <<Target(name, {"lib"})>>
ProcMacroLib(name) == <<Target(name, {"proc-macro"})>>
NoFeatures == <<>>

\* test_data/metadata/target_cfg_features: a member that depends on tokio
\* unconditionally and, with feature fs, under a platform predicate; tokio
\* has a build dependency (autocfg), itself possibly under a predicate.
TargetCfgFeatures(gate, build_gate) ==
    Metadata(
        << Package("tcf 0", "tcf", 0, NoFeatures,
                   << CargoDependency("tokio", "Normal", <<>>),
                      [CargoDependency("tokio", "Normal", <<"fs">>)
                          EXCEPT !.target = Some(gate)] >>,
                   Lib("tcf")),
           Package("tokio 1", "tokio", 1, [default |-> <<>>, fs |-> <<>>],
                   << [CargoDependency("autocfg", "Build", <<>>)
                          EXCEPT !.target = build_gate],
                      CargoDependency("pin-project-lite", "Normal", <<>>) >>,
                   Lib("tokio")),
           Package("autocfg 1", "autocfg", 1, NoFeatures, <<>>, Lib("autocfg")),
           Package("pin-project-lite 0", "pin-project-lite", 0, NoFeatures, <<>>,
                   Lib("pin_project_lite")) >>,
        {"tcf 0"})

GatePlatforms ==
    {PlatformCfg("unix"), PlatformCfg("windows"), PlatformCfg("not(unix)"),
     PlatformCfg("target_os = \"macos\""), PlatformName("x86_64-unknown-linux-gnu"),
     PlatformName("X86_64-Apple-Darwin")}

BuildGates == {None, Some(PlatformCfg("unix"))}

\* A package p with an optional dependency x that its features a and b refer
\* to, requested with different features by a member w (normally and as a
\* development dependency) and by a library q.
OptionalDiamond(f1, f2, f3, a_expr) ==
    Metadata(
        << Package("w 0", "w", 0, NoFeatures,
                   << CargoDependency("p", "Normal", f1),
                      CargoDependency("p", "Development", f2),
                      CargoDependency("q", "Normal", <<>>) >>,
                   Lib("w")),
           Package("q 1", "q", 1, NoFeatures,
                   << CargoDependency("p", "Normal", f3) >>, Lib("q")),
           Package("p 1", "p", 1,
                   [a |-> <<a_expr>>, b |-> <<"x?/f">>, default |-> <<>>],
                   << [CargoDependency("x", "Normal", <<>>) EXCEPT !.optional = TRUE] >>,
                   Lib("p")),
           Package("x 1", "x", 1, [f |-> <<>>, g |-> <<>>, default |-> <<"g">>],
                   <<>>, Lib("x")) >>,
        {"w 0"})

DiamondF1 == {<<"a">>, <<"a", "b">>}
DiamondF2 == {<<>>, <<"b">>}
DiamondF3 == {<<"a">>, <<"b">>, <<"a", "b">>}
DiamondExprs == {"dep:x", "x/g", "x?/g"}

\* A member w with a tool t (a library or a proc macro, used as a normal, a
\* build or a development dependency); t uses the library l (with or without
\* its default features) and has a build dependency cc under a predicate.
HostTools(kind, proc_macro, default_features, build_gate) ==
    Metadata(
        << Package("w 0", "w", 0, [default |-> <<"t/h">>, extra |-> <<>>],
                   << CargoDependency("t", kind, <<>>),
                      CargoDependency("l", "Normal", <<>>) >>,
                   Lib("w")),
           Package("t 2", "t", 2, [h |-> <<"l/h">>],
                   << [CargoDependency("l", "Normal", <<>>)
                          EXCEPT !.uses_default_features = default_features],
                      [CargoDependency("cc", "Build", <<"jobs">>)
                          EXCEPT !.target = build_gate] >>,
                   IF proc_macro THEN ProcMacroLib("t") ELSE Lib("t")),
           Package("l 1", "l", 1, [default |-> <<"std">>, std |-> <<>>, h |-> <<>>],
                   <<>>, Lib("l")),
           Package("cc 1", "cc", 1, [jobs |-> <<>>], <<>>, Lib("cc")) >>,
        {"w 0"})

ToolKinds == {"Normal", "Build", "Development"}

\* Cyclic inputs: two members that depend on each other (w2 on w1 as a
\* development dependency), libraries a and b that depend on each other and
\* ask for features the other does not declare, and features that list each
\* other.
Cyclic(a_feats) ==
    Metadata(
        << Package("w1 0", "w1", 0, [f |-> <<"g">>, g |-> <<"f", "w2/k">>],
                   << CargoDependency("w2", "Normal", <<"k">>),
                      CargoDependency("a", "Normal", a_feats) >>,
                   Lib("w1")),
           Package("w2 0", "w2", 0, [k |-> <<"k">>],
                   << CargoDependency("w1", "Development", <<"f", "nope">>) >>,
                   Lib("w2")),
           Package("a 1", "a", 1,
                   [m |-> <<"n", "b/u">>, n |-> <<"m">>, x1 |-> <<"b/w">>],
                   << CargoDependency("b", "Normal", <<"u">>) >>, Lib("a")),
           Package("b 1", "b", 1, [v |-> <<"a/m">>, default |-> <<"v">>],
                   << CargoDependency("a", "Normal", <<"n", "zz">>) >>, Lib("b")) >>,
        {"w1 0", "w2 0"})

CyclicFeats == {<<>>, <<"m">>, <<"x1">>}

\* Inputs resolve cannot finish on: a cfg text that does not parse, and a
\* dependency on a package without a library target.
Faulty(bad_cfg) ==
    Metadata(
        << Package("w 0", "w", 0, NoFeatures,
                   << CargoDependency("tool", "Normal", <<>>),
                      [CargoDependency("l", "Normal", <<>>)
                          EXCEPT !.target = IF bad_cfg THEN Some(PlatformCfg("unix("))
                                            ELSE None] >>,
                   Lib("w")),
           Package("tool 1", "tool", 1, NoFeatures, <<>>,
                   IF bad_cfg THEN Lib("tool") ELSE <<Target("tool", {"bin"})>>),
           Package("l 1", "l", 1, NoFeatures, <<>>, Lib("l")) >>,
        {"w 0"})

\* A member w that depends, under the name zlib, on z-sys (a library or a
\* proc macro, with or without a links name) and on the library n; n depends
\* on z-sys normally and for its build script, and has a development
\* dependency devtool of its own.
LinkedSys(kind, proc_macro, links) ==
    Metadata(
        << Package("w 0", "w", 0, NoFeatures,
                   << [CargoDependency("z-sys", kind, <<"static">>)
                          EXCEPT !.rename = Some("zlib")],
                      CargoDependency("n", "Normal", <<>>) >>,
                   Lib("w")),
           Package("n 1", "n", 1,
                   [default |-> <<"std">>, std |-> <<"alloc">>, alloc |-> <<>>],
                   << CargoDependency("z-sys", "Normal", <<>>),
                      CargoDependency("z-sys", "Build", <<"static">>),
                      CargoDependency("devtool", "Development", <<"cli">>) >>,
                   Lib("n")),
           [Package("z-sys 1", "z-sys", 1, [default |-> <<>>, static |-> <<>>], <<>>,
                    IF proc_macro THEN ProcMacroLib("z_sys") ELSE Lib("z_sys"))
               EXCEPT !.links = IF links THEN Some("z") ELSE None],
           Package("devtool 1", "devtool", 1, [cli |-> <<>>], <<>>, Lib("devtool")) >>,
        {"w 0"})

\* test_data/metadata/crate_combined_features: serde is asked for twice, by
\* the member with the feature derive and by the library helper without it;
\* serde_derive is an optional proc macro dependency of serde.
CombinedFeatures ==
    Metadata(
        << Package("app 0", "app", 0, NoFeatures,
                   << CargoDependency("serde", "Normal", <<"derive">>),
                      CargoDependency("helper", "Normal", <<>>) >>,
                   Lib("app")),
           Package("helper 0", "helper", 0, NoFeatures,
                   << CargoDependency("serde", "Normal", <<>>) >>, Lib("helper")),
           Package("serde 1", "serde", 1,
                   [default |-> <<"std">>, derive |-> <<"serde_derive">>,
                    serde_derive |-> <<"dep:serde_derive">>, std |-> <<>>],
                   << [CargoDependency("serde_derive", "Normal", <<>>)
                          EXCEPT !.optional = TRUE] >>,
                   Lib("serde")),
           Package("serde_derive 1", "serde_derive", 1, [default |-> <<>>], <<>>,
                   ProcMacroLib("serde_derive")) >>,
        {"app 0"})

\* A member w whose feature extra enables two optional dependencies r1 and
\* r2; they ask p for a and for b, while the library q asks p for both. p is
\* the package of OptionalDiamond: a enables its optional dependency x, b
\* refers to it weakly.
SeedOrder ==
    Metadata(
        << Package("w 0", "w", 0, [extra |-> <<"dep:r1", "dep:r2">>],
                   << CargoDependency("q", "Normal", <<>>),
                      [CargoDependency("r1", "Normal", <<>>) EXCEPT !.optional = TRUE],
                      [CargoDependency("r2", "Normal", <<>>) EXCEPT !.optional = TRUE] >>,
                   Lib("w")),
           Package("q 1", "q", 1, NoFeatures,
                   << CargoDependency("p", "Normal", <<"a", "b">>) >>, Lib("q")),
           Package("r1 1", "r1", 1, NoFeatures,
                   << CargoDependency("p", "Normal", <<"a">>) >>, Lib("r1")),
           Package("r2 1", "r2", 1, NoFeatures,
                   << CargoDependency("p", "Normal", <<"b">>) >>, Lib("r2")),
           Package("p 1", "p", 1,
                   [a |-> <<"dep:x">>, b |-> <<"x?/f">>, default |-> <<>>],
                   << [CargoDependency("x", "Normal", <<>>) EXCEPT !.optional = TRUE] >>,
                   Lib("p")),
           Package("x 1", "x", 1, [f |-> <<>>, g |-> <<>>, default |-> <<"g">>],
                   <<>>, Lib("x")) >>,
        {"w 0"})

\* A member that renames two of its dependencies: metal as mtl, and objc-sys
\* as objc-rs; it uses serde under its own name.
Renamed ==
    Metadata(
        << Package("gfx 0", "gfx", 0, NoFeatures,
                   << [CargoDependency("metal", "Normal", <<>>)
                          EXCEPT !.rename = Some("mtl")],
                      [CargoDependency("objc-sys", "Normal", <<>>)
                          EXCEPT !.rename = Some("objc-rs")],
                      CargoDependency("serde", "Normal", <<>>) >>,
                   Lib("gfx")),
           Package("metal 0", "metal", 0, NoFeatures, <<>>, Lib("metal")),
           Package("objc-sys 0", "objc-sys", 0, NoFeatures, <<>>, Lib("objc_sys")),
           Package("serde 1", "serde", 1, NoFeatures, <<>>, Lib("serde")) >>,
        {"gfx 0"})

\* The source of a registry package and of a git dependency
Registry == "registry+https://github.com/rust-lang/crates.io-index"
GitRepo == "git+https://example.com/foo"

\* The requirements and the sources of the dependency on foo
FooReqs ==
    { <<>>,
      <<Comparator("^", 1, FALSE)>>,
      <<Comparator(">=", 1, FALSE), Comparator("<", 3, FALSE)>>,
      <<Comparator(">=", 4, TRUE)>> }
FooSources == {None, Some(Registry), Some(GitRepo)}

\* A member app that depends on foo with the given requirement and source,
\* on ghost, which is no package of the metadata, and on the library bar.
\* foo exists as 1 and 2 in the registry, as 3 and the pre-release 4 in a git
\* repository, and as 5 in a local path.
Sourced(req, source) ==
    Metadata(
        << Package("app 0", "app", 0, NoFeatures,
                   << [CargoDependency("foo", "Normal", <<>>)
                          EXCEPT !.req = req, !.source = source],
                      CargoDependency("ghost", "Normal", <<>>),
                      CargoDependency("bar", "Normal", <<>>) >>,
                   Lib("app")),
           Package("bar 1", "bar", 1, NoFeatures, <<>>, Lib("bar")),
           [Package("foo 2", "foo", 2, NoFeatures, <<>>, Lib("foo"))
               EXCEPT !.source = Some(Registry)],
           [Package("foo 4", "foo", 4, NoFeatures, <<>>, Lib("foo"))
               EXCEPT !.source = Some(GitRepo \o "#4a"), !.version = Version(4, TRUE)],
           [Package("foo 1", "foo", 1, NoFeatures, <<>>, Lib("foo"))
               EXCEPT !.source = Some(Registry)],
           Package("foo 5", "foo", 5, NoFeatures, <<>>, Lib("foo")),
           [Package("foo 3", "foo", 3, NoFeatures, <<>>, Lib("foo"))
               EXCEPT !.source = Some(GitRepo \o "#3a")] >>,
        {"app 0"})

Metadatas ==
    {TargetCfgFeatures(g, b) : g \in GatePlatforms, b \in BuildGates}
    \cup {OptionalDiamond(f1, f2, f3, e) :
             f1 \in DiamondF1, f2 \in DiamondF2, f3 \in DiamondF3, e \in DiamondExprs}
    \cup {HostTools(k, pm, df, b) :
             k \in ToolKinds, pm \in BOOLEAN, df \in BOOLEAN, b \in BuildGates}
    \cup {Cyclic(af) : af \in CyclicFeats}
    \cup {Faulty(c) : c \in BOOLEAN}
    \cup {LinkedSys(k, pm, l) : k \in ToolKinds, pm \in BOOLEAN, l \in BOOLEAN}
    \cup {CombinedFeatures, SeedOrder, Renamed}
    \cup {Sourced(r, s) : r \in FooReqs, s \in FooSources}

\* The elements of AllTriples at the positions in S, in order
RECURSIVE TriplesAt(_, _)
TriplesAt(S, from) ==
    IF from > Len(AllTriples) THEN <<>>
    ELSE (IF from \in S THEN <<AllTriples[from]>> ELSE <<>>) \o TriplesAt(S, from + 1)

TripleChoices ==
    {TriplesAt(S, 1) : S \in {T \in SUBSET (1..Len(AllTriples)) :
                                 Cardinality(T) <= MaxTriples}}
    \cup {TestTriples}


----------------------------------------------------------------------------
(* The state machine: execute and the resolve calls it makes               *)

NoVisit ==
    [id |-> "", location |-> "", features |-> {}, flattened_features |-> {},
     any_changed |-> FALSE, enabled_deps |-> {}, activated |-> {}]

\* The resolver after new(metadata), about to execute on the given triples
Init ==
    \E metadata \in Metadatas, ts \in TripleChoices :
        /\ workspace_members = New(metadata).workspace_members
        /\ dependency_resolve = New(metadata).dependency_resolve
        /\ triples = ts
        /\ target_triples = <<>>
        /\ host_triples = <<>>
        /\ pc = "execute"
        /\ hi = 1
        /\ ti = 1
        /\ resolved = <<>>
        /\ stack = <<>>
        /\ data = <<>>
        /\ last = NoVisit
        /\ admitted = {}
        /\ output = <<>>

\* filter(..) that lets every triple through: each supplied triple is a host
FilterHostToolsKeepsAll(infos) == infos

\* filter(..).collect(): the subsequence of the elements that satisfy Test
RECURSIVE FilterHostTools(_)
FilterHostTools(infos) ==
    IF infos = <<>> THEN <<>>
    ELSE (IF Head(infos).triple \in Range(RUSTC_TRIPLES_WITH_HOST_TOOLS)
          THEN <<Head(infos)>> ELSE <<>>) \o FilterHostTools(Tail(infos))

\* The supplied triples without the ones cfg_expr has no record of
RECURSIVE TargetInfosSkipsUnknown(_)
TargetInfosSkipsUnknown(ts) ==
    IF ts = <<>> THEN Some(<<>>)
    ELSE Some((IF GetBuiltinTargetByTriple(Head(ts)) = None THEN <<>>
               ELSE <<The(GetBuiltinTargetByTriple(Head(ts)))>>)
              \o The(TargetInfosSkipsUnknown(Tail(ts))))

\* map(get_builtin_target_by_triple(..).unwrap()).collect(): the info records
\* of the triples, or None when the unwrap panics on a triple without one
TargetInfos(ts) ==
    IF \E i \in 1..Len(ts) : GetBuiltinTargetByTriple(ts[i]) = None
    THEN None
    ELSE Some([i \in 1..Len(ts) |-> The(GetBuiltinTargetByTriple(ts[i]))])

\* execute up to the loops over the pairs: the info records of the triples
\* (the unwrap panics on a triple without one) and the hosts among them
ExecuteStart ==
    /\ pc = "execute"
    /\ IF TargetInfos(triples) = None
       THEN /\ pc' = "panicked"
            /\ UNCHANGED <<target_triples, host_triples>>
       ELSE \E infos \in TargetInfos(triples) :
                /\ target_triples' = infos
                /\ host_triples' = FilterHostTools(infos)
                /\ pc' = "pairs"
    /\ UNCHANGED <<workspace_members, dependency_resolve, triples, hi, ti,
                   resolved, stack, data, last, admitted, output>>

\* The host and the target of the current resolve call
Host == host_triples[hi]
TargetOfRun == target_triples[ti]

\* The call resolve(host, target, &mut data) up to its while loop
ResolveBegin ==
    /\ pc = "pairs"
    /\ hi <= Len(host_triples)
    /\ resolved' = <<>>
    /\ stack' = SeedStack
    /\ last' = NoVisit
    /\ admitted' = {}
    /\ pc' = "resolve"
    /\ UNCHANGED <<workspace_members, dependency_resolve, triples, target_triples,
                   host_triples, hi, ti, data, output>>

\* The locals of the iteration that takes stack[i]
VisitLocals(i) ==
    LET id == stack[i][1]
        location == stack[i][2]
        flattened_features == VisitFlattened(id, stack[i][3])
        any_changed == AnyChanged(resolved, id, location, flattened_features)
        enabled_deps == IF any_changed THEN EnabledDeps(id, flattened_features) ELSE {}
    IN  [id |-> id, location |-> location, features |-> stack[i][3],
         flattened_features |-> flattened_features,
         any_changed |-> any_changed,
         enabled_deps |-> enabled_deps,
         activated |->
            IF any_changed
            THEN {<<k, l>> \in (1..Len(dependency_resolve[id].deps)) \X {"Target", "Host"} :
                    ActivatedDep(location, enabled_deps, Host, TargetOfRun,
                                 dependency_resolve[id].deps[k]) = Some(l)}
            ELSE {}]

\* One iteration of the while loop that takes stack[i] and walks the
\* dependencies in the given order
Iteration(i, order) ==
    \E locals \in {VisitLocals(i)} :
        IF locals.any_changed /\ VisitPanics(locals.id)
        THEN /\ pc' = "panicked"
             /\ UNCHANGED <<resolved, stack, last, admitted>>
        ELSE \E st \in {Visit([resolved |-> resolved, stack |-> stack],
                               Host, TargetOfRun, i, order)} :
                 /\ resolved' = st.resolved
                 /\ stack' = st.stack
                 /\ last' = locals
                 /\ admitted' = admitted \cup
                        {<<locals.id, locals.location, a[1], a[2]>> :
                            a \in locals.activated}
                 /\ pc' = pc

\* One iteration of the while loop of resolve: stack.pop(), the dependencies
\* in the order of deps
ResolvePop ==
    /\ pc = "resolve"
    /\ stack # <<>>
    /\ Iteration(Len(stack), Identity(Len(dependency_resolve[stack[Len(stack)][1]].deps)))
    /\ UNCHANGED <<workspace_members, dependency_resolve, triples, target_triples,
                   host_triples, hi, ti, data, output>>

\* The rest of resolve once the stack is empty: the annotations are written
\* into data (the unwrap of a missing library target name panics), and
\* execute moves to its next pair
ResolveAnnotate ==
    /\ pc = "resolve"
    /\ stack = <<>>
    /\ IF AnnotatePanics(resolved)
       THEN /\ pc' = "panicked"
            /\ UNCHANGED <<data, hi, ti>>
       ELSE /\ data' = Annotate(data, resolved, Host, TargetOfRun)
            /\ pc' = "pairs"
            /\ IF ti < Len(target_triples)
               THEN ti' = ti + 1 /\ hi' = hi
               ELSE ti' = 1 /\ hi' = hi + 1
    /\ UNCHANGED <<workspace_members, dependency_resolve, triples, target_triples,
                   host_triples, resolved, stack, last, admitted, output>>

\* The loops over the pairs have ended
ExecuteFinish ==
    /\ pc = "pairs"
    /\ hi > Len(host_triples)
    /\ pc' = "done"
    /\ output' = [crate \in DOMAIN data |->
                    Collapse(data[crate], {t.triple : t \in Range(target_triples)})]
    /\ UNCHANGED <<workspace_members, dependency_resolve, triples, target_triples,
                   host_triples, hi, ti, resolved, stack, data, last, admitted>>

Next ==
    \/ ExecuteStart
    \/ ResolveBegin
    \/ ResolvePop
    \/ ResolveAnnotate
    \/ ExecuteFinish

Spec == Init /\ [][Next]_vars


\* The annotations and the configurations the operations of a Select are
\* called with: two features and one dependency, in common (None) or under
\* one of two triples
SelectValues ==
    {[CrateAnnotationDefault EXCEPT !.features = fs, !.deps = ds] :
        fs \in SUBSET {"std", "alloc"}, ds \in SUBSET {"serde"}}
SelectConfigs == {None, Some("wasm32-unknown-unknown"), Some("x86_64-apple-darwin")}

\* Two Selects, both Select::new(); pc names the operation applied last
SelectInit ==
    /\ pc = "new"
    /\ output = [s \in {"this", "other"} |-> SelectNew]
    /\ workspace_members = {} /\ dependency_resolve = <<>>
    /\ triples = <<>> /\ target_triples = <<>> /\ host_triples = <<>>
    /\ hi = 1 /\ ti = 1
    /\ resolved = <<>> /\ stack = <<>> /\ data = <<>>
    /\ last = NoVisit /\ admitted = {}

\* insert(value, configuration) on one of the two Selects
SelectInsertStep ==
    /\ \E s \in {"this", "other"}, value \in SelectValues, configuration \in SelectConfigs :
          output' = [output EXCEPT ![s] = SelectableInsert(@, value, configuration)]
    /\ pc' = "insert"
    /\ UNCHANGED <<workspace_members, dependency_resolve, triples, target_triples,
                   host_triples, hi, ti, resolved, stack, data, last, admitted>>

\* this = merge(this, other); other is taken and left as Select::new()
SelectMergeStep ==
    /\ output' = [this |-> SelectableMerge(output["this"], output["other"]),
                  other |-> SelectNew]
    /\ pc' = "merge"
    /\ UNCHANGED <<workspace_members, dependency_resolve, triples, target_triples,
                   host_triples, hi, ti, resolved, stack, data, last, admitted>>

\* optimize on one of the two Selects
SelectOptimizeStep ==
    /\ \E s \in {"this", "other"} :
          output' = [output EXCEPT ![s] = SelectableOptimize(@)]
    /\ pc' = "optimize"
    /\ UNCHANGED <<workspace_members, dependency_resolve, triples, target_triples,
                   host_triples, hi, ti, resolved, stack, data, last, admitted>>

SelectNext ==
    \/ SelectInsertStep
    \/ SelectMergeStep
    \/ SelectOptimizeStep

\* Any sequence of insert, merge and optimize from the empty Select
SelectSpec == SelectInit /\ [][SelectNext]_vars

\* The scheduling of the code: execute is a sequential function that runs to
\* its end, so a step that can be taken is taken
FairSpec == Spec /\ WF_vars(Next)

\* The permutations of 1..n, as sequences
EdgeOrders(n) ==
    {p \in [1..n -> 1..n] : \A i, j \in 1..n : p[i] = p[j] => i = j}

\* One iteration of the while loop in which any pending element is taken and
\* the dependencies are walked in any order
ResolvePopAnyOrder ==
    /\ pc = "resolve"
    /\ stack # <<>>
    /\ \E i \in 1..Len(stack) :
          \E order \in EdgeOrders(Len(dependency_resolve[stack[i][1]].deps)) :
              Iteration(i, order)
    /\ UNCHANGED <<workspace_members, dependency_resolve, triples, target_triples,
                   host_triples, hi, ti, data, output>>

NextAnyOrder ==
    \/ ExecuteStart
    \/ ResolveBegin
    \/ ResolvePopAnyOrder
    \/ ResolveAnnotate
    \/ ExecuteFinish

\* execute with the work loop of resolve free to take the pending elements
\* and the dependencies in any order
SpecAnyOrder == Init /\ [][NextAnyOrder]_vars

\* The while loop of resolve run to its end in the order of the code
RECURSIVE ResolveLoop(_, _, _)
ResolveLoop(st, host, target) ==
    IF st.stack = <<>> THEN st.resolved
    ELSE The({ResolveLoop(next, host, target) :
                next \in {Visit(st, host, target, Len(st.stack),
                                Identity(Len(dependency_resolve[st.stack[Len(st.stack)][1]].deps)))}})

\* The while loop of the current resolve call has ended
LoopDone == pc = "resolve" /\ stack = <<>>


----------------------------------------------------------------------------
(* The claims                                                              *)

\* C1: every while loop of resolve ends: once a resolve call has started,
\* its stack is eventually empty (or the call has aborted on a cfg text that
\* does not parse), also on cyclic dependency graphs and cyclic features.
C1_LoopTerminates ==
    (pc = "resolve") ~> ((pc = "resolve" /\ stack = <<>>) \/ pc = "panicked")

\* C1 witness: the loop has ended on the cyclic input, with the two
\* libraries that depend on each other resolved
C1_Witness ==
    /\ LoopDone
    /\ {<<"a 1", "Target">>, <<"b 1", "Target">>, <<"w2 0", "Target">>}
            \subseteq DOMAIN resolved
    /\ resolved[<<"a 1", "Target">>].features = {"m", "n"}

\* C2 (as claimed): whatever pending element each iteration takes and
\* whatever order it walks the dependencies in, the resolved map at the end
\* of the loop is the one the order of the code produces.
C2_OrderIndependent ==
    LoopDone =>
        resolved = ResolveLoop([resolved |-> <<>>, stack |-> SeedStack],
                               Host, TargetOfRun)

\* C3: when the loop has ended, every workspace member is resolved at Target
\* with exactly the features it declares.
C3_MembersSaturated ==
    LoopDone =>
        \A w \in workspace_members :
            /\ <<w, "Target">> \in DOMAIN resolved
            /\ resolved[<<w, "Target">>].features = DeclaredFeatures(w)

\* C3 witness: the loop has ended and a member that declares features has them
C3_Witness ==
    /\ LoopDone
    /\ \E w \in workspace_members :
          /\ Cardinality(DeclaredFeatures(w)) >= 2
          /\ resolved[<<w, "Target">>].features = DeclaredFeatures(w)

\* C4: the dep record of every admitted edge that uses default features and
\* whose destination declares default contains default; and when the loop has
\* ended, the destination is resolved at the dep-location with default.
C4_DefaultFeature ==
    LET \* The admitted edges that use default features and whose destination
        \* declares a feature named default: <<id, location, edge, dep_location>>
        AdmittedWithDefault ==
            {a \in admitted :
                /\ dependency_resolve[a[1]].deps[a[3]].use_default_featues
                /\ "default" \in DeclaredFeatures(dependency_resolve[a[1]].deps[a[3]].id)}
        \* The key of the dep record of an admitted edge
        RecordKey(a) ==
            <<dependency_resolve[a[1]].deps[a[3]].id, a[4], dependency_resolve[a[1]].deps[a[3]].kind>>
    IN
        \A a \in AdmittedWithDefault :
            /\ RecordKey(a) \in DOMAIN resolved[<<a[1], a[2]>>].deps
            /\ "default" \in resolved[<<a[1], a[2]>>].deps[RecordKey(a)].features
            /\ LoopDone =>
                  /\ <<RecordKey(a)[1], a[4]>> \in DOMAIN resolved
                  /\ "default" \in resolved[<<RecordKey(a)[1], a[4]>>].features

\* C4 witness: the loop has ended with such an edge admitted from an entry at
\* Host, and its destination is resolved at Host with default and with the
\* feature that default lists
C4_Witness ==
    LET \* The admitted edges that use default features and whose destination
        \* declares a feature named default: <<id, location, edge, dep_location>>
        AdmittedWithDefault ==
            {a \in admitted :
                /\ dependency_resolve[a[1]].deps[a[3]].use_default_featues
                /\ "default" \in DeclaredFeatures(dependency_resolve[a[1]].deps[a[3]].id)}
        \* The key of the dep record of an admitted edge
        RecordKey(a) ==
            <<dependency_resolve[a[1]].deps[a[3]].id, a[4], dependency_resolve[a[1]].deps[a[3]].kind>>
    IN
        /\ LoopDone
        /\ \E a \in AdmittedWithDefault :
              /\ a[2] = "Host"
              /\ {"default", "std"} \subseteq resolved[<<RecordKey(a)[1], a[4]>>].features

\* C5: in every iteration of the loop, an optional edge is admitted only if
\* the iteration saw dep:name or name/feature for the name of the edge; and an
\* iteration that saw only name?/feature leaves the dep record of the edge as
\* it was (absent, or with the same content).
C5_OptionalGate ==
    [][LET \* The right-hand sides of the flattened features of the latest iteration
           LastExprs ==
               UNION {Range(dependency_resolve[last.id].package.features[f]) :
                         f \in last.flattened_features}
           \* The latest iteration saw "dep:name" or "name/feature"
           StrongRef(exprs, name) ==
               \E expr \in exprs :
                   \/ expr = "dep:" \o name
                   \/ (StartsWith(expr, name \o "/") /\ ~StartsWith(expr, "dep:"))
           \* The latest iteration saw "name?/feature"
           WeakRef(exprs, name) ==
               \E expr \in exprs : StartsWith(expr, name \o "?/") /\ ~StartsWith(expr, "dep:")
           \* The dep record under a key of (id, location), as None or Some(record)
           RecordAt(res, e, key) ==
               IF e \in DOMAIN res /\ key \in DOMAIN res[e].deps THEN Some(res[e].deps[key]) ELSE None
       IN
       (pc = "resolve" /\ pc' = "resolve" /\ stack # <<>>) =>
        \A k \in 1..Len(dependency_resolve[last'.id].deps) :
            LET dep == dependency_resolve[last'.id].deps[k]
                e == <<last'.id, last'.location>>
            IN  dep.optional =>
                  /\ (\E l \in {"Target", "Host"} : <<k, l>> \in last'.activated)
                        => StrongRef(LastExprs', dep.name)
                  /\ (last'.any_changed /\ WeakRef(LastExprs', dep.name)
                        /\ ~StrongRef(LastExprs', dep.name))
                        => \A l \in {"Target", "Host"} :
                              RecordAt(resolved', e, <<dep.id, l, dep.kind>>)
                                = RecordAt(resolved, e, <<dep.id, l, dep.kind>>)]_vars

\* C5 witness: an iteration on p that saw only x?/f for its optional
\* dependency x, after an earlier iteration had admitted x
C5_Witness ==
    LET \* The right-hand sides of the flattened features of the latest iteration
        LastExprs ==
            UNION {Range(dependency_resolve[last.id].package.features[f]) :
                      f \in last.flattened_features}
        \* The latest iteration saw "dep:name" or "name/feature"
        StrongRef(exprs, name) ==
            \E expr \in exprs :
                \/ expr = "dep:" \o name
                \/ (StartsWith(expr, name \o "/") /\ ~StartsWith(expr, "dep:"))
        \* The latest iteration saw "name?/feature"
        WeakRef(exprs, name) ==
            \E expr \in exprs : StartsWith(expr, name \o "?/") /\ ~StartsWith(expr, "dep:")
    IN
        /\ pc = "resolve"
        /\ last.any_changed
        /\ \E k \in 1..Len(dependency_resolve[last.id].deps) :
              LET dep == dependency_resolve[last.id].deps[k]
              IN  /\ dep.optional
                  /\ WeakRef(LastExprs, dep.name)
                  /\ ~StrongRef(LastExprs, dep.name)
                  /\ <<k, "Target">> \notin last.activated
                  /\ <<last.id, last.location, k, "Target">> \in admitted

\* C6: every resolved entry at Host is reached from a workspace member at
\* Target by a chain of admitted edges that has an edge of kind Build or an
\* edge to a proc macro in it; the stack a call starts with holds workspace
\* members at Target only.
C6_HostReached ==
    LET \* The edges between resolved entries that resolve admitted: <<from, to>>
        AdmittedEdges ==
            {<<<<a[1], a[2]>>, <<dependency_resolve[a[1]].deps[a[3]].id, a[4]>>>> : a \in admitted}
        \* The admitted edges whose kind is Build or whose destination is a proc macro
        CrossingEdges ==
            {<<<<a[1], a[2]>>, <<dependency_resolve[a[1]].deps[a[3]].id, a[4]>>>> :
                a \in {b \in admitted :
                          \/ dependency_resolve[b[1]].deps[b[3]].kind = "Build"
                          \/ dependency_resolve[dependency_resolve[b[1]].deps[b[3]].id].is_proc_macro}}
        \* The nodes a chain of edges leads to from the nodes of S (S included)
        RECURSIVE Reachable(_, _)
        Reachable(S, edges) ==
            LET more == S \cup {e[2] : e \in {d \in edges : d[1] \in S}}
            IN  IF more = S THEN S ELSE Reachable(more, edges)
        \* The entries a chain of admitted edges with a Build or proc-macro edge in
        \* it leads to from a workspace member at Target
        ReachedAcrossHostEdge ==
            LET from_members == Reachable({<<w, "Target">> : w \in workspace_members},
                                          AdmittedEdges)
            IN  Reachable({e[2] : e \in {d \in CrossingEdges : d[1] \in from_members}},
                          AdmittedEdges)
    IN
        /\ \A e \in DOMAIN resolved : e[2] = "Host" => e \in ReachedAcrossHostEdge
        /\ (pc = "resolve" /\ resolved = <<>>) =>
              \A i \in 1..Len(stack) :
                  stack[i][1] \in workspace_members /\ stack[i][2] = "Target"

\* C6 witness: an entry at Host that was reached from another entry at Host
C6_Witness ==
    \E a \in admitted :
        /\ a[2] = "Host"
        /\ <<dependency_resolve[a[1]].deps[a[3]].id, "Host">> \in DOMAIN resolved

\* C7: a dep record is at Host iff its entry is at Host, its kind is Build
\* or its destination is a proc macro; so an entry at Host has no dep record
\* at Target.
C7_DepLocation ==
    \A e \in DOMAIN resolved : \A k \in DOMAIN resolved[e].deps :
        /\ k[2] \in {"Target", "Host"}
        /\ k[2] = "Host" <=>
              (e[2] = "Host" \/ k[3] = "Build" \/ dependency_resolve[k[1]].is_proc_macro)
        /\ e[2] = "Host" => k[2] # "Target"

\* C7 witness: dep records at Host of every cause: from an entry at Host with
\* a normal edge, of kind Build to a library, and to a proc macro
C7_Witness ==
    /\ \E e \in DOMAIN resolved : \E k \in DOMAIN resolved[e].deps :
          e[2] = "Host" /\ k[3] = "Normal" /\ ~dependency_resolve[k[1]].is_proc_macro
    /\ \E e \in DOMAIN resolved : \E k \in DOMAIN resolved[e].deps :
          e[2] = "Target" /\ k[3] = "Normal" /\ dependency_resolve[k[1]].is_proc_macro
    /\ \E e \in DOMAIN resolved : \E k \in DOMAIN resolved[e].deps :
          e[2] = "Target" /\ k[3] = "Normal" /\ k[2] = "Target"

\* C8 (as claimed): when a resolve call writes its annotations, every build
\* dependency of a package resolved at Target is in build_deps under the host
\* triple of the call, and the call does not put it under the target triple
\* when that is another triple.
C8_BuildDepsUnderHost ==
    [][LET \* The build dependencies (kind Build, not proc macros, no platform predicate
           \* on the edges) of the packages the current call resolved at Target:
           \* <<crate, Dependency>>
           BuildDepsAtTarget ==
               UNION {UNION {{<<CrateId(dependency_resolve[e[1]].package), d>> :
                                 d \in DependenciesOf(k[1], resolved[e].deps[k])} :
                            k \in {x \in DOMAIN resolved[e].deps :
                                     /\ x[3] = "Build"
                                     /\ ~dependency_resolve[x[1]].is_proc_macro
                                     /\ resolved[e].deps[x].target = {}}} :
                      e \in {y \in DOMAIN resolved : y[2] = "Target"}}
           \* d is in build_deps of the crate under the key config
           InBuildDeps(dat, crate, config, d) ==
               /\ crate \in DOMAIN dat
               /\ config \in DOMAIN dat[crate]
               /\ d \in dat[crate][config].build_deps
       IN
       (pc = "resolve" /\ pc' = "pairs") =>
        \A x \in BuildDepsAtTarget :
            /\ InBuildDeps(data', x[1], Host.triple, x[2])
            /\ (TargetOfRun.triple # Host.triple
                    /\ ~InBuildDeps(data, x[1], TargetOfRun.triple, x[2]))
                  => ~InBuildDeps(data', x[1], TargetOfRun.triple, x[2])]_vars

\* C8 (amended): when a resolve call writes its annotations, every build
\* dependency without a platform predicate of a package resolved at Target is
\* in build_deps under the target triple of the call, the key of the package's
\* own location, whether or not that triple is the host.
C8_BuildDepsUnderTarget ==
    [][LET \* The build dependencies (kind Build, not proc macros, no platform predicate
           \* on the edges) of the packages the current call resolved at Target:
           \* <<crate, Dependency>>
           BuildDepsAtTarget ==
               UNION {UNION {{<<CrateId(dependency_resolve[e[1]].package), d>> :
                                 d \in DependenciesOf(k[1], resolved[e].deps[k])} :
                            k \in {x \in DOMAIN resolved[e].deps :
                                     /\ x[3] = "Build"
                                     /\ ~dependency_resolve[x[1]].is_proc_macro
                                     /\ resolved[e].deps[x].target = {}}} :
                      e \in {y \in DOMAIN resolved : y[2] = "Target"}}
           \* d is in build_deps of the crate under the key config
           InBuildDeps(dat, crate, config, d) ==
               /\ crate \in DOMAIN dat
               /\ config \in DOMAIN dat[crate]
               /\ d \in dat[crate][config].build_deps
       IN
       (pc = "resolve" /\ pc' = "pairs") =>
        \A x \in BuildDepsAtTarget :
            InBuildDeps(data', x[1], TargetOfRun.triple, x[2])]_vars

\* C8 witness: a call has written a build dependency under a target triple
\* that is not a host
C8_Witness ==
    /\ pc = "pairs"
    /\ \E c \in DOMAIN data : \E t \in DOMAIN data[c] :
          /\ t \in Range(triples)
          /\ t \notin {host_triples[i].triple : i \in 1..Len(host_triples)}
          /\ data[c][t].build_deps # {}

\* C9 (as claimed): every key of the per-crate maps in data is the triple
\* string of one of the triples execute was called with.
C9_KeysAreTriples ==
    \A c \in DOMAIN data : DOMAIN data[c] \subseteq Range(triples)

\* C10 (as claimed): for the member that depends on tokio unconditionally and
\* under cfg(unix) with feature fs, run on the four triples of the test: under
\* the two unix triples the member has the dependency on tokio with features
\* {default, fs} and tokio has the feature fs; under the windows and the
\* wasm32 triple the member has tokio with {default} and tokio has no fs
\* (the build dependency of tokio carries no predicate).
C10_CfgFeatures ==
    LET \* The Dependency on tokio with the given features
        TokioDependency(features) ==
            [id |-> CrateId(dependency_resolve["tokio 1"].package),
             target_name |-> "tokio", alias |-> None, features |-> features,
             optional |-> FALSE]
    IN
        (/\ pc = "done"
         /\ triples = TestTriples
         /\ workspace_members = {"tcf 0"}
         /\ dependency_resolve["tcf 0"].deps[2].target = Some(PlatformCfg("unix"))
         /\ dependency_resolve["tokio 1"].deps[1].target = None)
        => LET member == CrateId(dependency_resolve["tcf 0"].package)
               tokio == CrateId(dependency_resolve["tokio 1"].package)
           IN  /\ \A t \in {"x86_64-apple-darwin", "x86_64-unknown-linux-gnu"} :
                    /\ t \in DOMAIN data[member]
                    /\ data[member][t].deps = {TokioDependency({"default", "fs"})}
                    /\ t \in DOMAIN data[tokio]
                    /\ data[tokio][t].features = {"default", "fs"}
               /\ \A t \in {"x86_64-pc-windows-msvc", "wasm32-unknown-unknown"} :
                    /\ t \in DOMAIN data[member]
                    /\ data[member][t].deps = {TokioDependency({"default"})}
                    /\ t \in DOMAIN data[tokio]
                    /\ data[tokio][t].features = {"default"}

----------------------------------------------------------------------------
(* The collapse of execute: claims C11 to C13                              *)

\* C11: after execute, whatever is in a crate's common annotation is in the
\* crate's pre-collapse annotation of every triple the caller supplied; a
\* crate annotated for only some of the triples has its annotations, shared
\* items included, in selects and nothing in common.
C11_CommonHoldsForEveryTriple ==
    LET \* let targets = target_triples.iter().map(|t| t.triple.as_str())
        Targets == {t.triple : t \in Range(target_triples)}
        Fields == DOMAIN CrateAnnotationDefault
        \* The annotation resolve wrote for a crate under a configuration, empty when
        \* it wrote none
        PreCollapse(crate, config) ==
            IF config \in DOMAIN data[crate] THEN data[crate][config]
            ELSE CrateAnnotationDefault
        PartlyAnnotated(crate) == \E t \in Targets : t \notin DOMAIN data[crate]
    IN
        pc = "done" =>
            \A crate \in DOMAIN output :
                /\ \A t \in Targets : \A field \in Fields :
                       output[crate].common[field] \subseteq PreCollapse(crate, t)[field]
                /\ PartlyAnnotated(crate) =>
                       /\ AnnotationIsEmpty(output[crate].common)
                       /\ output[crate].selects = data[crate]

\* One crate has a common part, another is annotated for two of the triples
\* only, and these two share an item
C11_Witness ==
    LET \* let targets = target_triples.iter().map(|t| t.triple.as_str())
        Targets == {t.triple : t \in Range(target_triples)}
        Fields == DOMAIN CrateAnnotationDefault
        PartlyAnnotated(crate) == \E t \in Targets : t \notin DOMAIN data[crate]
    IN
        /\ pc = "done"
        /\ \E crate \in DOMAIN output : ~AnnotationIsEmpty(output[crate].common)
        /\ \E crate \in DOMAIN output :
              /\ PartlyAnnotated(crate)
              /\ \E t1, t2 \in DOMAIN data[crate] \cap Targets : \E field \in Fields :
                    /\ t1 # t2
                    /\ data[crate][t1][field] \cap data[crate][t2][field] # {}
                    /\ output[crate].selects[t1][field] \cap
                          output[crate].selects[t2][field] # {}

\* C12: after execute, for every crate and every supplied triple t, the
\* field-wise union of common and selects[t] (empty when t has no entry) is
\* the annotation resolve wrote for t (empty when it wrote none).
C12_CommonAndSelectsRestore ==
    LET \* let targets = target_triples.iter().map(|t| t.triple.as_str())
        Targets == {t.triple : t \in Range(target_triples)}
        \* The annotation resolve wrote for a crate under a configuration, empty when
        \* it wrote none
        PreCollapse(crate, config) ==
            IF config \in DOMAIN data[crate] THEN data[crate][config]
            ELSE CrateAnnotationDefault
        \* The value of selects for a configuration, empty when it has no entry
        SelectsAt(select, config) ==
            IF config \in DOMAIN select.selects THEN select.selects[config]
            ELSE CrateAnnotationDefault
    IN
        pc = "done" =>
            \A crate \in DOMAIN output : \A t \in Targets :
                AnnotationMerge(output[crate].common, SelectsAt(output[crate], t))
                    = PreCollapse(crate, t)

\* The three cases of a triple: a residue next to a common part, no entry
\* left because everything went into common, and no annotation at all
C12_Witness ==
    LET \* let targets = target_triples.iter().map(|t| t.triple.as_str())
        Targets == {t.triple : t \in Range(target_triples)}
    IN
        /\ pc = "done"
        /\ \E crate \in DOMAIN output : \E t1, t2 \in Targets :
              /\ ~AnnotationIsEmpty(output[crate].common)
              /\ t1 \in DOMAIN output[crate].selects
              /\ t2 \in DOMAIN data[crate] \ DOMAIN output[crate].selects
        /\ \E crate \in DOMAIN output : \E t \in Targets :
              /\ t \notin DOMAIN data[crate]
              /\ output[crate].selects # <<>>

\* The Select of a crate as the fold of execute has built it, before optimize
Inserted(crate) == InsertAll(SelectNew, data[crate], SortedSeq(DOMAIN data[crate]))

\* C13: for every Select built by inserting the per-configuration annotations
\* of a crate, a second pass of optimize changes nothing: optimize twice
\* gives the same common and selects as optimize once.
C13_OptimizeIdempotent ==
    pc = "done" =>
        \A crate \in DOMAIN data :
            SelectableOptimize(SelectableOptimize(Inserted(crate)))
                = SelectableOptimize(Inserted(crate))

----------------------------------------------------------------------------
(* The annotations of resolve: claims C14 to C16                           *)

\* C14: in every annotation resolve has written, build_link_deps holds
\* exactly the Dependency values of deps (the normal dependencies that are
\* not proc macros) whose destination declares a links name, and nothing of
\* a proc macro: it is a subset of deps with the identical values.
C14_BuildLinkDeps ==
    LET \* The package a Dependency value names
        Destination(d) ==
            dependency_resolve[CHOOSE id \in DOMAIN dependency_resolve :
                                  CrateId(dependency_resolve[id].package) = d.id]
        HasLinks(d) == Destination(d).package.links # None
    IN
        \A crate \in DOMAIN data : \A config \in DOMAIN data[crate] :
            LET a == data[crate][config]
            IN  /\ a.build_link_deps \subseteq a.deps
                /\ a.build_link_deps = {d \in a.deps : HasLinks(d)}
                /\ \A d \in a.build_link_deps : ~Destination(d).is_proc_macro

\* The member's renamed dependency on a package with links is in deps and in
\* build_link_deps, while a library's build dependency on the same package
\* is in build_deps only
C14_Witness ==
    LET \* The package a Dependency value names
        Destination(d) ==
            dependency_resolve[CHOOSE id \in DOMAIN dependency_resolve :
                                  CrateId(dependency_resolve[id].package) = d.id]
        HasLinks(d) == Destination(d).package.links # None
    IN
        \E crate \in DOMAIN data : \E config \in DOMAIN data[crate] :
            /\ \E d \in data[crate][config].build_link_deps :
                  /\ d \in data[crate][config].deps
                  /\ d.alias = Some("zlib")
                  /\ "static" \in d.features
            /\ \E crate2 \in DOMAIN data : \E config2 \in DOMAIN data[crate2] :
                  \E d \in data[crate2][config2].build_deps :
                      /\ HasLinks(d)
                      /\ d \notin data[crate2][config2].build_link_deps

\* C15: when resolve writes its annotations, every Dependency it emits goes
\* into the bucket of (edge kind, destination is a proc macro), and it is in
\* another of the six buckets of that annotation only if it was there before
\* or another emission of the same call, with that bucket, put it there.
C15_OneBucket ==
    [][LET SixBuckets == DepBuckets \ {"build_link_deps"}
           \* The bucket of an edge kind and of whether the destination is a proc macro
           BucketOf(kind, proc_macro) ==
               CASE kind = "Normal" /\ ~proc_macro -> "deps"
                 [] kind = "Normal" /\ proc_macro -> "proc_macro_deps"
                 [] kind = "Development" /\ ~proc_macro -> "deps_dev"
                 [] kind = "Development" /\ proc_macro -> "proc_macro_deps_dev"
                 [] kind = "Build" /\ ~proc_macro -> "build_deps"
                 [] kind = "Build" /\ proc_macro -> "build_proc_macro_deps"
           \* <<crate, key, kind, destination id, Dependency>> for every Dependency
           \* value the for loop over resolved builds and pushes
           Emitted ==
               UNION {UNION {UNION {{<<CrateId(dependency_resolve[e[1]].package), c, k[3],
                                       k[1], d>> :
                                       c \in DepConfigs(resolved[e].deps[k],
                                                        ConfigOf(e[2], Host, TargetOfRun))} :
                                    d \in DependenciesOf(k[1], resolved[e].deps[k])} :
                             k \in DOMAIN resolved[e].deps} : e \in DOMAIN resolved}
       IN
       (pc = "resolve" /\ pc' = "pairs") =>
          \A x \in Emitted :
              LET b == BucketOf(x[3], dependency_resolve[x[4]].is_proc_macro)
                  before(b2) == /\ x[1] \in DOMAIN data
                                /\ x[2] \in DOMAIN data[x[1]]
                                /\ x[5] \in data[x[1]][x[2]][b2]
              IN  /\ x[5] \in data'[x[1]][x[2]][b]
                  /\ \A b2 \in SixBuckets \ {b} :
                        x[5] \in data'[x[1]][x[2]][b2] =>
                            \/ before(b2)
                            \/ \E y \in Emitted :
                                  /\ y[1] = x[1] /\ y[2] = x[2] /\ y[5] = x[5]
                                  /\ BucketOf(y[3], dependency_resolve[y[4]].is_proc_macro)
                                        = b2]_vars

\* An annotation holds a proc macro used in development, and another a proc
\* macro used normally and by a build script, next to a normal library
C15_Witness ==
    /\ \E crate \in DOMAIN data : \E config \in DOMAIN data[crate] :
          /\ data[crate][config].proc_macro_deps_dev # {}
          /\ data[crate][config].deps # {}
    /\ \E crate \in DOMAIN data : \E config \in DOMAIN data[crate] :
          /\ data[crate][config].proc_macro_deps # {}
          /\ data[crate][config].build_proc_macro_deps # {}
          /\ data[crate][config].proc_macro_deps
                \cap data[crate][config].build_proc_macro_deps = {}

\* C16: when resolve writes its annotations, the features a crate gains
\* under a key are exactly those contributed by the entries written under
\* that key: for a workspace member the features the other entries at Target
\* ask of it in their dep records (none when nothing depends on it), never
\* its own state.features; for any other package its state.features.
C16_AnnotationFeatures ==
    [][LET \* The features the other entries at Target ask of the package id: the union
           \* of the feature sets of their dep records keyed (id, Target, any kind)
           RequestedOf(id) ==
               UNION {UNION {resolved[e].deps[k].features :
                                k \in {y \in DOMAIN resolved[e].deps :
                                          y[1] = id /\ y[2] = "Target"}} :
                         e \in {x \in DOMAIN resolved : x[2] = "Target" /\ x[1] # id}}
           \* What the claim says an entry of resolved contributes to the features of
           \* its crate
           Contributed(e) ==
               IF e[1] \in workspace_members THEN RequestedOf(e[1]) ELSE resolved[e].features
           \* The entries of resolved written under a crate and a key
           EntriesOf(crate, config) ==
               {e \in DOMAIN resolved :
                   /\ CrateId(dependency_resolve[e[1]].package) = crate
                   /\ ConfigOf(e[2], Host, TargetOfRun) = config}
           FeaturesAt(dat, crate, config) ==
               IF crate \in DOMAIN dat /\ config \in DOMAIN dat[crate]
               THEN dat[crate][config].features ELSE {}
       IN
       (pc = "resolve" /\ pc' = "pairs") =>
          \A crate \in DOMAIN data' : \A config \in DOMAIN data'[crate] :
              FeaturesAt(data', crate, config)
                = FeaturesAt(data, crate, config)
                    \cup UNION {Contributed(e) : e \in EntriesOf(crate, config)}]_vars

\* After a call: a member that declares features has other features in its
\* annotation, those asked of it, and a second member, which the first
\* depends on, has exactly what the first asks of it
C16_Witness ==
    LET \* The features the other entries at Target ask of the package id: the union
        \* of the feature sets of their dep records keyed (id, Target, any kind)
        RequestedOf(id) ==
            UNION {UNION {resolved[e].deps[k].features :
                             k \in {y \in DOMAIN resolved[e].deps :
                                       y[1] = id /\ y[2] = "Target"}} :
                      e \in {x \in DOMAIN resolved : x[2] = "Target" /\ x[1] # id}}
    IN
        /\ pc = "pairs"
        /\ \E id \in workspace_members :
              LET crate == CrateId(dependency_resolve[id].package)
              IN  /\ <<id, "Target">> \in DOMAIN resolved
                  /\ resolved[<<id, "Target">>].features # {}
                  /\ RequestedOf(id) # resolved[<<id, "Target">>].features
                  /\ \E config \in DOMAIN data[crate] :
                        /\ data[crate][config].features = RequestedOf(id)
                        /\ data[crate][config].features # {}
        /\ \E id \in DOMAIN dependency_resolve \ workspace_members :
              LET crate == CrateId(dependency_resolve[id].package)
              IN  /\ <<id, "Target">> \in DOMAIN resolved
                  /\ \E config \in DOMAIN data[crate] :
                        /\ data[crate][config].features # {}
                        /\ data[crate][config].features
                              = resolved[<<id, "Target">>].features

----------------------------------------------------------------------------
(* Features: claims C17 to C19                                             *)

C18_FlattenedIsLeastClosure ==
    LET \* A set of declared features of the package closed under "G in the set, H
        \* listed by G, H declared => H in the set"
        ClosedUnderListed(package, S) ==
            \A G \in S : \A H \in Range(package.features[G]) \cap DOMAIN package.features :
                H \in S
        \* The least such set that contains F: the intersection of all of them
        LeastClosure(package, F) ==
            {x \in DOMAIN package.features :
                \A S \in SUBSET DOMAIN package.features :
                    (F \in S /\ ClosedUnderListed(package, S)) => x \in S}
        \* A dep:name, name/feature or name?/feature string
        IsDepReference(x) == StartsWith(x, "dep:") \/ SplitOnce(x, "/") # None
    IN
        \A id \in DOMAIN dependency_resolve :
            LET package == dependency_resolve[id].package
            IN  /\ DOMAIN dependency_resolve[id].flattened_features
                      = DOMAIN package.features
                /\ \A F \in DOMAIN package.features :
                      /\ dependency_resolve[id].flattened_features[F]
                            = LeastClosure(package, F)
                      /\ \A x \in dependency_resolve[id].flattened_features[F] :
                            ~IsDepReference(x)

\* new has finished on a package whose features list each other in a cycle
\* and refer to a dependency, and a loop of resolve has used the closures
C18_Witness ==
    LET \* A dep:name, name/feature or name?/feature string
        IsDepReference(x) == StartsWith(x, "dep:") \/ SplitOnce(x, "/") # None
    IN
        \E id \in DOMAIN dependency_resolve :
          /\ LoopDone
          /\ <<id, "Target">> \in DOMAIN resolved
          /\ LET package == dependency_resolve[id].package
                 flat == dependency_resolve[id].flattened_features
             IN  \E F, G \in DOMAIN package.features :
                     /\ F # G
                     /\ G \in Range(package.features[F])
                     /\ F \in Range(package.features[G])
                     /\ \E x \in Range(package.features[G]) : IsDepReference(x)
                     /\ flat[F] = {F, G}
                     /\ flat[G] = {F, G}
                     /\ resolved[<<id, "Target">>].features = {F, G}

\* The initial stack if the members were seeded with the features in S that
\* they declare
SeedStackWith(S) ==
    LET ids == SortedSeq(workspace_members)
    IN  [i \in 1..Len(ids) |-> <<ids[i], "Target", S \cap DeclaredFeatures(ids[i])>>]

\* The resolved map of the current call if it were seeded with S
ResolveSeeded(S) ==
    ResolveLoop([resolved |-> <<>>, stack |-> SeedStackWith(S)], Host, TargetOfRun)

\* C19: seeding the members with more features never gives less: for seeds
\* S1 and S2 with S1 a subset of S2, every entry of the map resolved from S1
\* is in the map resolved from S2 with at least its features and its dep
\* records, each with at least its features.
C19_SeedMonotone ==
    LET \* The features the members can be seeded with
        SeedFeatures == UNION {DeclaredFeatures(id) : id \in workspace_members}
        \* Every entry of r1 is in r2 with at least its features and its dep records,
        \* each with at least its features
        ResolvedWithin(r1, r2) ==
            /\ DOMAIN r1 \subseteq DOMAIN r2
            /\ \A e \in DOMAIN r1 :
                  /\ r1[e].features \subseteq r2[e].features
                  /\ DOMAIN r1[e].deps \subseteq DOMAIN r2[e].deps
                  /\ \A k \in DOMAIN r1[e].deps :
                        r1[e].deps[k].features \subseteq r2[e].deps[k].features
    IN
        LoopDone =>
            \A S2 \in SUBSET SeedFeatures : \A S1 \in SUBSET S2 :
                ResolvedWithin(ResolveSeeded(S1), ResolveSeeded(S2))

----------------------------------------------------------------------------
(* Development dependencies: claim C20                                     *)

\* C20: a package that is not a workspace member has no edge and no dep
\* record of kind Development, and the annotations of its crate have empty
\* deps_dev and proc_macro_deps_dev.
C20_NoDevelopmentOutsideWorkspace ==
    LET \* The crates of the workspace members
        MemberCrates == {CrateId(dependency_resolve[id].package) : id \in workspace_members}
    IN
        /\ \A id \in DOMAIN dependency_resolve \ workspace_members :
              \A i \in 1..Len(dependency_resolve[id].deps) :
                  dependency_resolve[id].deps[i].kind # "Development"
        /\ \A e \in DOMAIN resolved :
              e[1] \notin workspace_members =>
                  \A k \in DOMAIN resolved[e].deps : k[3] # "Development"
        /\ \A crate \in DOMAIN data \ MemberCrates : \A config \in DOMAIN data[crate] :
              /\ data[crate][config].deps_dev = {}
              /\ data[crate][config].proc_macro_deps_dev = {}

\* A library that declares a development dependency has been resolved and
\* annotated with its other dependencies, while the member that uses it has
\* a development dependency in its annotation
C20_Witness ==
    LET \* The crates of the workspace members
        MemberCrates == {CrateId(dependency_resolve[id].package) : id \in workspace_members}
        \* The packages outside the workspace that declare a development dependency
        DeclaresDevelopment ==
            {id \in DOMAIN dependency_resolve \ workspace_members :
                \E i \in 1..Len(dependency_resolve[id].package.dependencies) :
                    dependency_resolve[id].package.dependencies[i].kind = "Development"}
    IN
        /\ pc = "pairs"
        /\ \E id \in DeclaresDevelopment :
              /\ <<id, "Target">> \in DOMAIN resolved
              /\ resolved[<<id, "Target">>].deps # <<>>
              /\ \E config \in DOMAIN data[CrateId(dependency_resolve[id].package)] :
                    data[CrateId(dependency_resolve[id].package)][config].deps # {}
        /\ \E crate \in MemberCrates \cap DOMAIN data : \E config \in DOMAIN data[crate] :
              data[crate][config].deps_dev # {}

----------------------------------------------------------------------------
(* The work loop of resolve: claims C21, C22 and C30                       *)

\* C21: when the work loop of resolve has finished, every dep record keyed
\* (dst, dep_loc, kind) in the deps of a resolved entry has its destination
\* in the resolved map: there is an entry for (dst, dep_loc).
C21_DepRecordsResolved ==
    LoopDone =>
        \A e \in DOMAIN resolved : \A k \in DOMAIN resolved[e].deps :
            <<k[1], k[2]>> \in DOMAIN resolved

\* The loop has finished with a dep record that has no features and one
\* whose destination is at Host while its owner is at Target
C21_Witness ==
    /\ LoopDone
    /\ \E e \in DOMAIN resolved : \E k \in DOMAIN resolved[e].deps :
          /\ resolved[e].deps[k].features = {}
          /\ <<k[1], k[2]>> \in DOMAIN resolved
    /\ \E e \in DOMAIN resolved : \E k \in DOMAIN resolved[e].deps :
          /\ e[2] = "Target" /\ k[2] = "Host"
          /\ <<k[1], k[2]>> \in DOMAIN resolved

\* C22: across every step of the work loop of resolve, no entry leaves the
\* resolved map, and for every entry the features, the keys of the dep
\* records and the features of each dep record only grow.
C22_ResolvedOnlyGrows ==
    [][LET \* Every entry of r1 is in r2 with at least its features and its dep records,
           \* each with at least its features
           ResolvedWithin(r1, r2) ==
               /\ DOMAIN r1 \subseteq DOMAIN r2
               /\ \A e \in DOMAIN r1 :
                     /\ r1[e].features \subseteq r2[e].features
                     /\ DOMAIN r1[e].deps \subseteq DOMAIN r2[e].deps
                     /\ \A k \in DOMAIN r1[e].deps :
                           r1[e].deps[k].features \subseteq r2[e].deps[k].features
       IN
       (pc = "resolve" /\ pc' = "resolve") => ResolvedWithin(resolved, resolved')]_vars

\* The last pop has added features to an entry that already had others, and
\* a dep record of that entry keeps a feature of an earlier visit that the
\* edge does not bring in this one
C22_Witness ==
    /\ pc = "resolve"
    /\ last.any_changed
    /\ last.flattened_features # {}
    /\ resolved[<<last.id, last.location>>].features
          \ last.flattened_features # {}
    /\ \E i \in 1..Len(dependency_resolve[last.id].deps) :
          LET dep == dependency_resolve[last.id].deps[i]
          IN  \E k \in DOMAIN resolved[<<last.id, last.location>>].deps :
                  /\ k[1] = dep.id /\ k[3] = dep.kind
                  /\ <<i, k[2]>> \in last.activated
                  /\ resolved[<<last.id, last.location>>].deps[k].features
                        \ ResolvedDep(DepBorrowDefault, last.enabled_deps, dep).features
                        # {}

----------------------------------------------------------------------------
(* The emitted Dependency values: claims C23 and C24                       *)

\* s with every dash replaced by an underscore
RECURSIVE ReplaceDashes(_)
ReplaceDashes(s) ==
    IF s = "" THEN ""
    ELSE (IF SubSeq(s, 1, 1) = "-" THEN "_" ELSE SubSeq(s, 1, 1))
            \o ReplaceDashes(SubSeq(s, 2, Len(s)))

\* The aliases the claim gives the dependencies of a package on the package
\* named dest: the rename with underscores, or none without rename
NormalizedAliases(package, dest) ==
    {IF package.dependencies[i].rename = None THEN None
     ELSE Some(ReplaceDashes(The(package.dependencies[i].rename))) :
        i \in {j \in 1..Len(package.dependencies) :
                  package.dependencies[j].name = dest}}

\* C23: in every annotation, the alias of a Dependency is the rename of one
\* of the edges to its destination with every dash replaced by an underscore
\* (no alias holds a dash), or absent for an edge that is not renamed, and
\* target_name is the library target name of the destination.
C23_AliasNormalized ==
    LET \* The package a Dependency value names
        Destination(d) ==
            dependency_resolve[CHOOSE id \in DOMAIN dependency_resolve :
                                  CrateId(dependency_resolve[id].package) = d.id]
        \* The package of a crate id
        PackageOfCrate(crate) ==
            dependency_resolve[CHOOSE id \in DOMAIN dependency_resolve :
                                  CrateId(dependency_resolve[id].package) = crate].package
        \* The Dependency values of all the buckets of an annotation
        AllDependencies(a) == UNION {a[b] : b \in DepBuckets}
    IN
        \A crate \in DOMAIN data : \A config \in DOMAIN data[crate] :
            \A d \in AllDependencies(data[crate][config]) :
                /\ d.alias \in NormalizedAliases(PackageOfCrate(crate), d.id.name)
                /\ \A a \in d.alias : SplitOnce(a, "-") = None
                /\ Some(d.target_name) = Destination(d).library_target_name

\* C24: a call of resolve that has activated a dependency on a package
\* without library target does not abort, and once it has written its
\* annotations the owner's crate holds the Dependency with an empty
\* target_name.
C24_NoLibraryTarget ==
    LET \* The Dependency values of all the buckets of an annotation
        AllDependencies(a) == UNION {a[b] : b \in DepBuckets}
        \* The dep records of the current call whose destination has no library
        \* target, as <<entry, key>>
        RecordsWithoutLibrary ==
            {x \in UNION {{<<e, k>> : k \in DOMAIN resolved[e].deps} : e \in DOMAIN resolved} :
                dependency_resolve[x[2][1]].library_target_name = None}
    IN
        \A x \in RecordsWithoutLibrary :
            /\ pc # "panicked"
            /\ pc \in {"pairs", "done"} =>
                  \E config \in DOMAIN data[CrateId(dependency_resolve[x[1][1]].package)] :
                      \E d \in AllDependencies(
                                  data[CrateId(dependency_resolve[x[1][1]].package)][config]) :
                          /\ d.id = CrateId(dependency_resolve[x[2][1]].package)
                          /\ d.target_name = ""

----------------------------------------------------------------------------
(* A cfg predicate that does not parse: claim C25                          *)

\* The value the unwrap of the parse result reports when the visit of id
\* panics: the cfg_expr parse error of the first dependency, in the order of
\* deps, whose predicate does not parse. It holds the text that was given to
\* the parser and nothing of the package or of the dependency.
UnwrapMessage(id) ==
    LET deps == dependency_resolve[id].deps
        bad == {i \in 1..Len(deps) :
                   \E cfg_expr \in deps[i].target : ~CfgParses(cfg_expr)}
        first == CHOOSE i \in bad : \A j \in bad : i <= j
    IN  [original |-> CfgToString(The(deps[first].target))]

\* C25: when the platform predicate of an outgoing edge of a visited package
\* is a cfg expression that does not parse, resolve aborts: no call of
\* resolve gets past the visit of such a package, so nothing of that call is
\* written; and the error it aborts with names the source package and the
\* name of the dependency.
C25_ParseFailureReported ==
    LET \* The dependency whose predicate stops the visit of id
        OffendingDep(id) ==
            LET deps == dependency_resolve[id].deps
                bad == {i \in 1..Len(deps) :
                           \E cfg_expr \in deps[i].target : ~CfgParses(cfg_expr)}
            IN  deps[CHOOSE i \in bad : \A j \in bad : i <= j]
        \* The call of resolve has stopped in the middle of its work loop
        AbortedInLoop == pc = "panicked" /\ stack # <<>>
    IN
        /\ pc \in {"resolve", "pairs", "done"} =>
              \A e \in DOMAIN resolved : ~VisitPanics(e[1])
        /\ AbortedInLoop =>
              LET id == stack[Len(stack)][1]
                  message == UnwrapMessage(id)
              IN  /\ "package" \in DOMAIN message
                  /\ "dependency" \in DOMAIN message
                  /\ message.package = dependency_resolve[id].package.name
                  /\ message.dependency = OffendingDep(id).name

----------------------------------------------------------------------------
(* The pairs execute resolves: claims C26 and C27                          *)

\* C26: when a supplied triple has no target-info record, execute aborts
\* before it calls resolve for any pair: it never enters its loops, no visit
\* is made, and nothing is accumulated or returned.
C26_UnknownTripleAborts ==
    LET \* The supplied triples cfg_expr has no record of
        UnknownTriples ==
            {i \in 1..Len(triples) : GetBuiltinTargetByTriple(triples[i]) = None}
    IN
        UnknownTriples # {} =>
            /\ pc \in {"execute", "panicked"}
            /\ target_triples = <<>> /\ host_triples = <<>>
            /\ resolved = <<>> /\ stack = <<>> /\ last = NoVisit
            /\ data = <<>> /\ output = <<>>

\* execute has aborted on an unknown triple that came after a triple with
\* host tools, for a workspace resolve finishes on
C26_Witness ==
    LET \* The supplied triples cfg_expr has no record of
        UnknownTriples ==
            {i \in 1..Len(triples) : GetBuiltinTargetByTriple(triples[i]) = None}
    IN
        /\ pc = "panicked"
        /\ Len(triples) = 2
        /\ UnknownTriples = {2}
        /\ triples[1] \in Range(RUSTC_TRIPLES_WITH_HOST_TOOLS)
        /\ \A id \in DOMAIN dependency_resolve : ~VisitPanics(id)

\* The loops of execute by their indices: the pairs whose call of resolve has
\* returned, and the pair of the call that is running or has panicked
PairsBefore ==
    {p \in (1..Len(host_triples)) \X (1..Len(target_triples)) :
        p[1] < hi \/ (p[1] = hi /\ p[2] < ti)}

InCall ==
    \/ pc = "resolve"
    \/ pc = "panicked" /\ hi <= Len(host_triples)

\* The (host, target) pairs of triples resolve has been called for so far
Called ==
    {<<host_triples[p[1]].triple, target_triples[p[2]].triple>> :
        p \in PairsBefore \cup (IF InCall THEN {<<hi, ti>>} ELSE {})}

\* C27: resolve is called only for pairs of a supplied triple of the 26-entry
\* list of triples with host tools and a supplied triple, and when execute
\* returns it has been called for every such pair; a supplied triple that is
\* not in the list is the host of no call and the target of a call for every
\* host.
C27_PairsResolved ==
    LET Supplied == Range(triples)
        SuppliedHosts == Supplied \cap Range(RUSTC_TRIPLES_WITH_HOST_TOOLS)
    IN
        /\ Len(RUSTC_TRIPLES_WITH_HOST_TOOLS) = 26
        /\ Called \subseteq SuppliedHosts \X Supplied
        /\ pc = "done" =>
              /\ Called = SuppliedHosts \X Supplied
              /\ \A t \in Supplied \ SuppliedHosts :
                    /\ \A c \in Called : c[1] # t
                    /\ \A h \in SuppliedHosts : <<h, t>> \in Called

\* execute has returned for the triples of the integration tests: twelve
\* calls, three of them with the target wasm32-unknown-unknown, which is not
\* in the list
C27_Witness ==
    LET Supplied == Range(triples)
        SuppliedHosts == Supplied \cap Range(RUSTC_TRIPLES_WITH_HOST_TOOLS)
    IN
        /\ pc = "done"
        /\ triples = TestTriples
        /\ Cardinality(Called) = 12
        /\ Supplied \ SuppliedHosts = {"wasm32-unknown-unknown"}
        /\ Cardinality({c \in Called : c[2] = "wasm32-unknown-unknown"}) = 3
        /\ data # <<>>

----------------------------------------------------------------------------
(* The destination of a declared dependency: claim C28                     *)

\* The metadata the resolver was built from
InputMetadata ==
    CHOOSE m \in Metadatas :
        /\ Range(m.packages) =
              {dependency_resolve[id].package : id \in DOMAIN dependency_resolve}
        /\ m.workspace_members \cap PackageIds(m) = workspace_members

\* The declared dependencies new has kept an edge for, with the package and
\* the id of the destination it chose
ChosenEdges ==
    {<<id, dep, The(ResolveDep(InputMetadata, id \in workspace_members, dep)).id>> :
        <<id, dep>> \in
            {e \in UNION {{<<i, d>> : d \in Range(dependency_resolve[i].package.dependencies)} :
                             i \in DOMAIN dependency_resolve} :
                ResolveDep(InputMetadata, e[1] \in workspace_members, e[2]) # None}}

\* C28 as stated: the destination of every edge is the highest-version
\* package of the name of the dependency whose version satisfies the
\* comparators of the requirement (any version when the requirement has no
\* comparators and the source of the edge starts with git+).
C28_HighestSatisfying ==
    LET \* The requirement of dep admits the version: its comparators are satisfied,
        \* or it has none and the source of dep starts with git+
        Admits(dep, version) ==
            \/ ReqMatches(dep.req, version)
            \/ dep.req = <<>> /\ \E s \in dep.source : StartsWith(s, "git+")
        \* pkg has the highest version among the packages in S
        HighestOf(pkg, S) ==
            /\ pkg \in S
            /\ \A other \in S : VersionKey(other.version) <= VersionKey(pkg.version)
        PackagesNamed(name) ==
            {dependency_resolve[id].package : id \in
                {i \in DOMAIN dependency_resolve : dependency_resolve[i].package.name = name}}
    IN
        \A e \in ChosenEdges :
            HighestOf(dependency_resolve[e[3]].package,
                      {pkg \in PackagesNamed(e[2].name) : Admits(e[2], pkg.version)})

\* C28, amended: the destination of every edge is the highest-version package
\* among the packages of the name of the dependency whose source agrees with
\* the source of the edge and whose version satisfies the comparators of the
\* requirement (any version when the requirement has no comparators and the
\* source of the edge starts with git+).
C28_HighestSatisfyingOfSource ==
    LET \* The requirement of dep admits the version: its comparators are satisfied,
        \* or it has none and the source of dep starts with git+
        Admits(dep, version) ==
            \/ ReqMatches(dep.req, version)
            \/ dep.req = <<>> /\ \E s \in dep.source : StartsWith(s, "git+")
        \* The source of the package agrees with the source of dep: both have none,
        \* or the one of the package starts with the one of dep
        SourceAgrees(dep, pkg) ==
            \/ pkg.source = None /\ dep.source = None
            \/ \E repr \in pkg.source : \E dep_src \in dep.source : StartsWith(repr, dep_src)
        \* pkg has the highest version among the packages in S
        HighestOf(pkg, S) ==
            /\ pkg \in S
            /\ \A other \in S : VersionKey(other.version) <= VersionKey(pkg.version)
        PackagesNamed(name) ==
            {dependency_resolve[id].package : id \in
                {i \in DOMAIN dependency_resolve : dependency_resolve[i].package.name = name}}
    IN
        \A e \in ChosenEdges :
            HighestOf(dependency_resolve[e[3]].package,
                      {pkg \in PackagesNamed(e[2].name) :
                          SourceAgrees(e[2], pkg) /\ Admits(e[2], pkg.version)})

\* An edge to foo from the registry with a requirement that foo 1 and foo 2
\* satisfy, resolved to foo 2 although foo 5 has a higher version; and the
\* loop of resolve has reached that destination
C28_Witness ==
    LET \* The source of the package agrees with the source of dep: both have none,
        \* or the one of the package starts with the one of dep
        SourceAgrees(dep, pkg) ==
            \/ pkg.source = None /\ dep.source = None
            \/ \E repr \in pkg.source : \E dep_src \in dep.source : StartsWith(repr, dep_src)
        PackagesNamed(name) ==
            {dependency_resolve[id].package : id \in
                {i \in DOMAIN dependency_resolve : dependency_resolve[i].package.name = name}}
    IN
        /\ LoopDone
        /\ \E e \in ChosenEdges :
              /\ e[2].source = Some(Registry)
              /\ Len(e[2].req) = 2
              /\ e[3] = "foo 2"
              /\ dependency_resolve[e[1]].deps[1].id = "foo 2"
              /\ <<"foo 2", "Target">> \in DOMAIN resolved
              /\ \E pkg \in PackagesNamed("foo") :
                    /\ VersionKey(pkg.version) > VersionKey(dependency_resolve[e[3]].package.version)
                    /\ ~SourceAgrees(e[2], pkg)

----------------------------------------------------------------------------
(* The accumulation of data over the pairs: claim C29                      *)

\* The most pairs all the orders are enumerated for
MaxPermuted == 4

\* The resolved map of the call of resolve for the pair p
ResolvedOfPair(p) ==
    ResolveLoop([resolved |-> <<>>, stack |-> SeedStack],
                host_triples[p[1]], target_triples[p[2]])

\* data after the calls for the pairs of order, begun with d; rs holds the
\* resolved map of each pair
RECURSIVE AccumulateIn(_, _, _)
AccumulateIn(order, rs, d) ==
    IF order = <<>> THEN d
    ELSE The({AccumulateIn(Tail(order), rs, next) :
                next \in {Annotate(d, rs[Head(order)],
                                   host_triples[Head(order)[1]],
                                   target_triples[Head(order)[2]])}})

\* C29: the data execute has accumulated when its loops end is the same in
\* whatever order the (host, target) pairs are resolved, and a call of
\* resolve only adds to data: every element that was under a crate, key and
\* field before the call is there after it.
C29_OrderIndependentGrowth ==
    [][LET \* The pairs of the loops of execute, by their indices
           AllPairs == (1..Len(host_triples)) \X (1..Len(target_triples))
           \* The pairs in the order of the loops, and with the loop over the targets
           \* outside
           RowMajor ==
               [k \in 1..Cardinality(AllPairs) |->
                   <<((k - 1) \div Len(target_triples)) + 1, ((k - 1) % Len(target_triples)) + 1>>]
           ColumnMajor ==
               [k \in 1..Cardinality(AllPairs) |->
                   <<((k - 1) % Len(host_triples)) + 1, ((k - 1) \div Len(host_triples)) + 1>>]
           Reversed(s) == [k \in 1..Len(s) |-> s[Len(s) + 1 - k]]
           \* The orders the pairs are resolved in: all of them for up to MaxPermuted
           \* pairs; beyond, the order of the loops, the order with the loops exchanged,
           \* and both reversed
           PairOrders ==
               IF Cardinality(AllPairs) <= MaxPermuted
               THEN {s \in [1..Cardinality(AllPairs) -> AllPairs] :
                        \A i, j \in DOMAIN s : s[i] = s[j] => i = j}
               ELSE {RowMajor, ColumnMajor, Reversed(RowMajor), Reversed(ColumnMajor)}
           \* Every element of d1 is in d2, under the same crate, key and field
           DataWithin(d1, d2) ==
               /\ DOMAIN d1 \subseteq DOMAIN d2
               /\ \A c \in DOMAIN d1 :
                     /\ DOMAIN d1[c] \subseteq DOMAIN d2[c]
                     /\ \A cfg \in DOMAIN d1[c] : \A field \in DOMAIN d1[c][cfg] :
                           d1[c][cfg][field] \subseteq d2[c][cfg][field]
           \* The accumulated data is what the calls give in every order of the pairs
           OrderIndependent ==
               \E rs \in {[p \in AllPairs |-> ResolvedOfPair(p)]} :
                   \A order \in PairOrders : AccumulateIn(order, rs, <<>>) = data
       IN
       /\ DataWithin(data, data')
       /\ (pc = "pairs" /\ pc' = "done") => OrderIndependent]_vars

\* execute has returned after four calls, two of which wrote different
\* elements under one key of one crate
C29_Witness ==
    LET \* The pairs of the loops of execute, by their indices
        AllPairs == (1..Len(host_triples)) \X (1..Len(target_triples))
    IN
        /\ pc = "done"
        /\ Cardinality(AllPairs) = 4
        /\ \E p, q \in AllPairs :
              \E dp \in {Annotate(<<>>, ResolvedOfPair(p),
                                  host_triples[p[1]], target_triples[p[2]])} :
              \E dq \in {Annotate(<<>>, ResolvedOfPair(q),
                                  host_triples[q[1]], target_triples[q[2]])} :
              \E c \in DOMAIN dp \cap DOMAIN dq : \E cfg \in DOMAIN dp[c] \cap DOMAIN dq[c] :
              \E field \in DOMAIN CrateAnnotationDefault :
                  /\ dp[c][cfg][field] \ dq[c][cfg][field] # {}
                  /\ dq[c][cfg][field] \ dp[c][cfg][field] # {}

----------------------------------------------------------------------------
(* Productive pushes and pops: claim C30                                   *)

\* C30 as stated: every tuple is productive when it is popped: the visit
\* either creates the entry of (dst, dep_loc) or strictly grows its feature
\* set.
C30_PopProductive ==
    [][LET \* A step of the work loop that does not abort the call
           LoopStep == pc = "resolve" /\ pc' = "resolve" /\ stack # <<>>
       IN
       LoopStep =>
          \/ <<stack[Len(stack)][1], stack[Len(stack)][2]>> \notin DOMAIN resolved
          \/ resolved[<<stack[Len(stack)][1], stack[Len(stack)][2]>>].features
                # resolved'[<<stack[Len(stack)][1], stack[Len(stack)][2]>>].features]_vars

\* C30, amended: every tuple is productive when it is pushed: at that time
\* (dst, dep_loc) has no entry or feats holds a feature its entry does not
\* have. When it is popped it need not be: a pop that finds the entry and
\* adds no feature to it changes nothing but the stack, which loses the
\* tuple.
C30_PushProductive ==
    [][LET \* A step of the work loop that does not abort the call
           LoopStep == pc = "resolve" /\ pc' = "resolve" /\ stack # <<>>
           \* The tuples the step has pushed: what stack' holds above the elements that
           \* were below the popped one
           Pushed == {stack'[i] : i \in Len(stack)..Len(stack')}
           \* The tuple is productive on the map res: its package and location have no
           \* entry, or it brings a feature the entry does not have
           Productive(res, tuple) ==
               \/ <<tuple[1], tuple[2]>> \notin DOMAIN res
               \/ tuple[3] \ res[<<tuple[1], tuple[2]>>].features # {}
       IN
       LoopStep =>
          /\ \A tuple \in Pushed : Productive(resolved', tuple)
          /\ ~last'.any_changed =>
                /\ resolved' = resolved
                /\ stack' = SubSeq(stack, 1, Len(stack) - 1)]_vars

\* A pop has just found its entry and added nothing to it, in a call in which
\* an entry was pushed again for a feature it did not have
C30_Witness ==
    /\ pc = "resolve"
    /\ last # NoVisit
    /\ ~last.any_changed
    /\ <<last.id, last.location>> \in DOMAIN resolved
    /\ last.flattened_features # {}
    /\ \E e \in DOMAIN resolved : \E k \in DOMAIN resolved[e].deps :
          /\ <<k[1], k[2]>> = <<last.id, last.location>>
          /\ resolved[e].deps[k].features \cap last.flattened_features # {}

----------------------------------------------------------------------------
(* The invariant of a Select of CrateAnnotation: claim C31                 *)

\* C31: after any sequence of insert, merge and optimize from the empty
\* Select, no entry of selects is an empty annotation, and each of the eight
\* field sets of every entry is disjoint from the same field set of common.
C31_SelectsDisjointFromCommon ==
    pc \in {"new", "insert", "merge", "optimize"} =>
        \A s \in DOMAIN output : \A k \in DOMAIN output[s].selects :
            /\ Cardinality(DOMAIN output[s].selects[k]) = 8
            /\ ~AnnotationIsEmpty(output[s].selects[k])
            /\ \A field \in DOMAIN output[s].selects[k] :
                  output[s].selects[k][field] \cap output[s].common[field] = {}

\* A merge has just ended with a feature and a dependency in common and one
\* entry of selects, which holds the other feature
C31_Witness ==
    /\ pc = "merge"
    /\ output["this"].common.features = {"std"}
    /\ output["this"].common.deps = {"serde"}
    /\ DOMAIN output["this"].selects = {"x86_64-apple-darwin"}
    /\ output["this"].selects["x86_64-apple-darwin"].features = {"alloc"}

----------------------------------------------------------------------------
(* The keys of the output: claim C32                                       *)

\* C32: when execute returns, its output has a key for exactly the crates of
\* the packages that some call of resolve has resolved at some location; a
\* crate nothing was written for under any key has the empty Select (empty
\* common, no selects).
C32_OutputKeys ==
    LET \* The packages resolved at some location in some call
        EverResolved ==
            UNION {{e[1] : e \in DOMAIN ResolvedOfPair(p)} :
                      p \in (1..Len(host_triples)) \X (1..Len(target_triples))}
    IN
        pc = "done" =>
            /\ DOMAIN output =
                  {CrateId(dependency_resolve[id].package) : id \in EverResolved}
            /\ \A c \in DOMAIN output :
                  (\A cfg \in DOMAIN data[c] : AnnotationIsEmpty(data[c][cfg]))
                      => output[c] = SelectNew

\* execute has returned a map that holds a crate with the empty Select, for
\* a package that was resolved with no feature and no dependency, and that
\* has no key for a package of the metadata that no call has reached
C32_Witness ==
    /\ pc = "done"
    /\ \E c \in DOMAIN output :
          /\ data[c] = <<>>
          /\ output[c] = SelectNew
          /\ \E id \in DOMAIN dependency_resolve :
                /\ CrateId(dependency_resolve[id].package) = c
                /\ id \notin workspace_members
    /\ \E id \in DOMAIN dependency_resolve :
          CrateId(dependency_resolve[id].package) \notin DOMAIN output

----------------------------------------------------------------------------
(* The platform gate of an edge: claim C33                                 *)

\* C33: in a visit, the predicate of an edge is evaluated against the info
\* record of the location the edge resolves to: the host's when the edge is a
\* build edge, its destination is a proc macro or the visited entry is at
\* Host, the target's otherwise; a triple written as the predicate holds iff
\* it equals the triple of that record up to ASCII case. An edge whose
\* predicate is false there is not activated: it writes no dep record and
\* pushes nothing in that visit. An edge that is not optional and whose
\* predicate holds there is activated, at that location.
C33_PlatformGate ==
    [][LET \* The location the edge resolves to
           LocationOf(location, dep) ==
               IF dep.kind = "Build" \/ dependency_resolve[dep.id].is_proc_macro
                  \/ location = "Host"
               THEN "Host" ELSE "Target"
           \* The predicate holds of the info record
           Holds(platform, info) ==
               IF platform.kind = "Cfg"
               THEN ExprEval(The(ExpressionParse(CfgToString(platform))), info)
               ELSE EqIgnoreAsciiCase(info.triple, platform.repr)
           \* The edges of the visit whose predicate is false
           Gated(id, location) ==
               {k \in 1..Len(dependency_resolve[id].deps) :
                   \E platform \in dependency_resolve[id].deps[k].target :
                       ~Holds(platform,
                              IF LocationOf(location, dependency_resolve[id].deps[k]) = "Host"
                              THEN Host ELSE TargetOfRun)}
           \* The dep record under a key of (id, location): None or Some(record)
           RecordAt(res, e, key) ==
               IF e \in DOMAIN res /\ key \in DOMAIN res[e].deps
               THEN Some(res[e].deps[key]) ELSE None
       IN
       (pc = "resolve" /\ pc' = "resolve" /\ stack # <<>> /\ last'.any_changed) =>
          LET id == last'.id
              location == last'.location
              deps == dependency_resolve[id].deps
          IN  /\ \A a \in last'.activated :
                    /\ a[1] \notin Gated(id, location)
                    /\ a[2] = LocationOf(location, deps[a[1]])
              /\ \A k \in (1..Len(deps)) \ Gated(id, location) :
                    ~deps[k].optional =>
                        <<k, LocationOf(location, deps[k])>> \in last'.activated
              /\ \A k \in Gated(id, location) : \A l \in {"Target", "Host"} :
                    \/ \E a \in last'.activated :
                          <<deps[a[1]].id, a[2], deps[a[1]].kind>> = <<deps[k].id, l, deps[k].kind>>
                    \/ RecordAt(resolved', <<id, location>>, <<deps[k].id, l, deps[k].kind>>)
                          = RecordAt(resolved, <<id, location>>, <<deps[k].id, l, deps[k].kind>>)
              /\ \A i \in Len(stack)..Len(stack') :
                    \E a \in last'.activated :
                        <<deps[a[1]].id, a[2]>> = <<stack'[i][1], stack'[i][2]>>]_vars

\* A visit at Target has just left out a build edge whose predicate is false
\* of the host although it holds of the target
C33_Witness ==
    /\ pc = "resolve"
    /\ last.any_changed
    /\ last.location = "Target"
    /\ \E k \in 1..Len(dependency_resolve[last.id].deps) :
          /\ dependency_resolve[last.id].deps[k].kind = "Build"
          /\ \A l \in {"Target", "Host"} : <<k, l>> \notin last.activated
          /\ \E platform \in dependency_resolve[last.id].deps[k].target :
                /\ PlatformMatches(platform, TargetOfRun)
                /\ ~PlatformMatches(platform, Host)
          /\ \A l \in {"Target", "Host"} :
                <<dependency_resolve[last.id].deps[k].id, l, "Build">>
                   \notin DOMAIN resolved[<<last.id, last.location>>].deps

----------------------------------------------------------------------------
(* A declared dependency that no package matches: claim C34                *)

\* C34: a declared edge that no package of its name matches is dropped by new
\* without an error. The other declared edges of the package are kept, one
\* ResolveDep each and in their order (except the development edges of a
\* package that is no member). In no call does the dropped edge give a dep
\* record, a pending tuple, a resolved entry or an emitted Dependency, and
\* execute panics for no reason but a triple without an info record.
C34_UnmatchedEdgeDropped ==
    LET \* The packages of the metadata that match the declared edge
        Matching(dep) ==
            {pkg \in {dependency_resolve[i].package : i \in DOMAIN dependency_resolve} :
                /\ pkg.name = dep.name
                /\ \/ pkg.source = None /\ dep.source = None
                   \/ \E repr \in pkg.source : \E dep_src \in dep.source :
                         StartsWith(repr, dep_src)
                /\ \/ ReqMatches(dep.req, pkg.version)
                   \/ dep.req = <<>> /\ \E s \in dep.source : StartsWith(s, "git+")}
        Declared(id) == dependency_resolve[id].package.dependencies
        \* The positions of the declared edges new keeps
        Kept(id) ==
            {k \in 1..Len(Declared(id)) :
                /\ Matching(Declared(id)[k]) # {}
                /\ Declared(id)[k].kind = "Development" => id \in workspace_members}
        \* The names of the packages some kept edge of the metadata leads to
        ReachedNames ==
            UNION {{Declared(i)[k].name : k \in Kept(i)} : i \in DOMAIN dependency_resolve}
        \* The metadata has a package with an edge that nothing matches
        HasUnmatched ==
            \E i \in DOMAIN dependency_resolve : \E k \in 1..Len(Declared(i)) :
                Matching(Declared(i)[k]) = {}
        NameOf(id) == dependency_resolve[id].package.name
    IN
        /\ \A id \in DOMAIN dependency_resolve :
              /\ Len(dependency_resolve[id].deps) = Cardinality(Kept(id))
              /\ \A k \in Kept(id) :
                    LET at == Cardinality({j \in Kept(id) : j <= k})
                    IN  /\ dependency_resolve[id].deps[at].kind = Declared(id)[k].kind
                        /\ NameOf(dependency_resolve[id].deps[at].id) = Declared(id)[k].name
              /\ \A k \in (1..Len(Declared(id))) \ Kept(id) :
                    Declared(id)[k].name \notin {Declared(id)[j].name : j \in Kept(id)} =>
                        /\ \A e \in DOMAIN resolved : e[1] = id =>
                              \A key \in DOMAIN resolved[e].deps :
                                  NameOf(key[1]) # Declared(id)[k].name
                        /\ CrateId(dependency_resolve[id].package) \in DOMAIN data =>
                              \A cfg \in DOMAIN data[CrateId(dependency_resolve[id].package)] :
                              \A field \in DepBuckets :
                              \A d \in data[CrateId(dependency_resolve[id].package)][cfg][field] :
                                  d.id.name # Declared(id)[k].name
                        /\ Declared(id)[k].name \notin ReachedNames =>
                              /\ \A i \in 1..Len(stack) :
                                    NameOf(stack[i][1]) = Declared(id)[k].name =>
                                        stack[i][1] \in workspace_members
                              /\ \A e \in DOMAIN resolved :
                                    NameOf(e[1]) = Declared(id)[k].name =>
                                        e[1] \in workspace_members
        /\ (HasUnmatched /\ pc = "panicked") =>
              \E i \in 1..Len(triples) : GetBuiltinTargetByTriple(triples[i]) = None

\* execute has returned for a member whose edge to foo matches none of the
\* five packages named foo and whose edge to ghost names no package: its edge
\* to bar is the only ResolveDep, bar is resolved and emitted, foo is not
C34_Witness ==
    /\ pc = "done"
    /\ "app 0" \in workspace_members
    /\ Len(dependency_resolve["app 0"].package.dependencies) = 3
    /\ Len(dependency_resolve["app 0"].deps) = 1
    /\ dependency_resolve["app 0"].deps[1].id = "bar 1"
    /\ Len(dependency_resolve["app 0"].package.dependencies[1].req) = 1
    /\ {c.name : c \in DOMAIN output} = {"app", "bar"}
    /\ \E cfg \in DOMAIN data[CrateId(dependency_resolve["app 0"].package)] :
          \E d \in data[CrateId(dependency_resolve["app 0"].package)][cfg]["deps"] :
              d.id.name = "bar"

----------------------------------------------------------------------------
(* The pop that changes nothing: claim C35                                 *)

\* C35: a pop of (id, loc, feats) when (id, loc) has an entry that already
\* holds the closure of feats removes the tuple from the stack and changes
\* nothing else: the resolved map, with the features and the dep records of
\* every entry, the rest of the stack, and the accumulated data.
C35_SkippedPopFrame ==
    [][LET top == stack[Len(stack)]
           \* The closure of feats in the flattened features of the package
           Closure ==
               UNION {dependency_resolve[top[1]].flattened_features[f] :
                         f \in top[3] \cap DOMAIN dependency_resolve[top[1]].flattened_features}
       IN
       (/\ pc = "resolve" /\ stack # <<>> /\ stack' # stack
        /\ <<top[1], top[2]>> \in DOMAIN resolved
        /\ Closure \subseteq resolved[<<top[1], top[2]>>].features) =>
          /\ stack' = SubSeq(stack, 1, Len(stack) - 1)
          /\ resolved' = resolved
          /\ data' = data
          /\ pc' = "resolve"
          /\ ~last'.any_changed]_vars

\* A tuple that brought features has just been popped for an entry that held
\* them all, with other tuples still pending below it
C35_Witness ==
    /\ pc = "resolve"
    /\ last # NoVisit
    /\ ~last.any_changed
    /\ last.features # {}
    /\ last.flattened_features \subseteq resolved[<<last.id, last.location>>].features
    /\ resolved[<<last.id, last.location>>].deps # <<>>
    /\ stack # <<>>

----------------------------------------------------------------------------
(* Weak references seen in another visit: claim C36                        *)

\* C36: when the work loop has ended, for every entry (P, loc): if its
\* features hold a feature that lists dep:X or X/G and a feature that lists
\* X?/F, and the edge of P named X passes the platform gate, then F is among
\* the features of the dep record of X, and among the resolved features of
\* the package of X when that package declares F.
C36_WeakReferenceAfterActivation ==
    LET \* What the features of the entry list
        Listed(e) ==
            UNION {Range(dependency_resolve[e[1]].package.features[f]) :
                      f \in resolved[e].features
                               \cap DOMAIN dependency_resolve[e[1]].package.features}
        \* The entry lists dep:name or name/feature
        Strong(e, name) ==
            \E expr \in Listed(e) :
                \/ expr = "dep:" \o name
                \/ /\ ~StartsWith(expr, "dep:")
                   /\ \E parts \in SplitOnce(expr, "/") : parts[1] = name
        \* The features F the entry lists as name?/F
        Weak(e, name) ==
            {parts[2] : parts \in
                {p \in UNION {SplitOnce(expr, "/") :
                                 expr \in {x \in Listed(e) : ~StartsWith(x, "dep:")}} :
                    p[1] = name \o "?"}}
        \* The edge passes the platform gate at its location
        Passes(e, dep) ==
            \A platform \in dep.target :
                PlatformMatches(platform,
                                IF DepLocation(e[2], dep) = "Host" THEN Host
                                ELSE TargetOfRun)
    IN
        LoopDone =>
            \A e \in DOMAIN resolved :
            \A k \in 1..Len(dependency_resolve[e[1]].deps) :
                LET dep == dependency_resolve[e[1]].deps[k]
                    key == <<dep.id, DepLocation(e[2], dep), dep.kind>>
                IN  (Strong(e, dep.name) /\ Passes(e, dep)) =>
                        \A F \in Weak(e, dep.name) :
                            /\ key \in DOMAIN resolved[e].deps
                            /\ F \in resolved[e].deps[key].features
                            /\ F \in DOMAIN dependency_resolve[dep.id].package.features =>
                                  /\ <<key[1], key[2]>> \in DOMAIN resolved
                                  /\ F \in resolved[<<key[1], key[2]>>].features

----------------------------------------------------------------------------
(* Two calls that differ in the host alone: claim C37                      *)

\* C37, as stated: for two pairs of execute with the same target, the
\* entries of the resolved map at Target (their features and all their dep
\* records) are the same, whatever the two hosts are.
C37_TargetPartSameForEveryHost ==
    LET TargetPart(rs) == [e \in {x \in DOMAIN rs : x[2] = "Target"} |-> rs[e]]
    IN  pc = "done" =>
            \A h1, h2 \in 1..Len(host_triples) : \A t \in 1..Len(target_triples) :
                TargetPart(ResolvedOfPair(<<h1, t>>)) = TargetPart(ResolvedOfPair(<<h2, t>>))

\* C37: for two pairs of execute with the same target, the resolved map has
\* the same entries at Target, with the same features and the same dep
\* records keyed with the location Target, whatever the two hosts are; the
\* entries at Host and the dep records keyed with the location Host (of
\* build and proc-macro edges, gated on the host) can differ.
C37_TargetFactsSameForEveryHost ==
    LET TargetDeps(deps) == [k \in {x \in DOMAIN deps : x[2] = "Target"} |-> deps[k]]
        TargetFacts(rs) ==
            [e \in {x \in DOMAIN rs : x[2] = "Target"} |->
                [features |-> rs[e].features, deps |-> TargetDeps(rs[e].deps)]]
    IN  pc = "done" =>
            \A h1, h2 \in 1..Len(host_triples) : \A t \in 1..Len(target_triples) :
                TargetFacts(ResolvedOfPair(<<h1, t>>)) = TargetFacts(ResolvedOfPair(<<h2, t>>))

\* execute has returned after calls for two hosts and one target whose
\* resolved maps differ at Host, while an entry at Target has a dep record
\* keyed with the location Target
C37_Witness ==
    /\ pc = "done"
    /\ \E h1, h2 \in 1..Len(host_triples) : \E t \in 1..Len(target_triples) :
          LET r1 == ResolvedOfPair(<<h1, t>>)
              r2 == ResolvedOfPair(<<h2, t>>)
          IN  /\ {e \in DOMAIN r1 : e[2] = "Host"} # {e \in DOMAIN r2 : e[2] = "Host"}
              /\ \E e \in DOMAIN r1 :
                    /\ e[2] = "Target"
                    /\ \E k \in DOMAIN r1[e].deps : k[2] = "Target" /\ r1[e].deps[k].target # {}

----------------------------------------------------------------------------
(* What a dep record promises its destination: claim C38                   *)

\* C38: at the head of the work loop of resolve, for every dep record keyed
\* (dst, dep_loc, kind) of every entry, the features of the record that dst
\* declares are all in the features of the entry (dst, dep_loc), or the
\* stack holds a tuple for (dst, dep_loc) whose features contain the ones of
\* them that the entry lacks (all of them when there is no entry).
C38_RecordResolvedOrPending ==
    pc = "resolve" =>
        \A e \in DOMAIN resolved : \A key \in DOMAIN resolved[e].deps :
            LET dst == <<key[1], key[2]>>
                declared == resolved[e].deps[key].features
                                \cap DOMAIN dependency_resolve[key[1]].package.features
                missing == IF dst \in DOMAIN resolved
                           THEN declared \ resolved[dst].features ELSE declared
            IN  \/ dst \in DOMAIN resolved /\ missing = {}
                \/ \E i \in 1..Len(stack) :
                      /\ <<stack[i][1], stack[i][2]>> = dst
                      /\ missing \subseteq stack[i][3]

\* The loop is at its head with a dep record whose destination has an entry
\* that lacks a declared feature of the record, the stack holding the tuple
\* that brings it; and with another record whose destination has it all
C38_Witness ==
    /\ pc = "resolve"
    /\ \E e \in DOMAIN resolved : \E key \in DOMAIN resolved[e].deps :
          /\ <<key[1], key[2]>> \in DOMAIN resolved
          /\ \E f \in resolved[e].deps[key].features
                          \cap DOMAIN dependency_resolve[key[1]].package.features :
                /\ f \notin resolved[<<key[1], key[2]>>].features
                /\ \E i \in 1..Len(stack) :
                      /\ <<stack[i][1], stack[i][2]>> = <<key[1], key[2]>>
                      /\ f \in stack[i][3]
    /\ \E e \in DOMAIN resolved : \E key \in DOMAIN resolved[e].deps :
          /\ <<key[1], key[2]>> \in DOMAIN resolved
          /\ resolved[e].deps[key].features # {}
          /\ resolved[e].deps[key].features \subseteq resolved[<<key[1], key[2]>>].features

----------------------------------------------------------------------------
(* The features of a crate under a host-capable triple: claim C39          *)

\* C39: when the calls of execute are over, for a crate of no workspace
\* member and a host triple X, the features of data under the key X are the
\* features the packages of the crate were resolved with at Target in the
\* calls whose target is X, together with the ones they were resolved with
\* at Host in the calls whose host is X (for every target).
C39_HostAndTargetFeaturesMerged ==
    LET Pairs == (1..Len(host_triples)) \X (1..Len(target_triples))
        rs == [p \in Pairs |-> ResolvedOfPair(p)]
        IdsOf(c) == {id \in DOMAIN dependency_resolve :
                        CrateId(dependency_resolve[id].package) = c}
        FeaturesAt(p, id, location) ==
            IF <<id, location>> \in DOMAIN rs[p]
            THEN rs[p][<<id, location>>].features ELSE {}
        Expected(c, X) ==
            UNION {(IF target_triples[p[2]].triple = X
                    THEN FeaturesAt(p, id, "Target") ELSE {})
                   \cup (IF host_triples[p[1]].triple = X
                         THEN FeaturesAt(p, id, "Host") ELSE {}) :
                      p \in Pairs, id \in IdsOf(c)}
    IN  pc = "done" =>
            \A c \in DOMAIN data :
                IdsOf(c) \cap workspace_members = {} =>
                    \A h \in 1..Len(host_triples) :
                        LET X == host_triples[h].triple
                        IN  (IF X \in DOMAIN data[c] THEN data[c][X].features ELSE {})
                                = Expected(c, X)

\* execute is over after calls for two hosts, and a crate of no member has,
\* under a host triple, a feature that its package was resolved with at Host
\* only and another that it was resolved with at Target only
C39_Witness ==
    /\ pc = "done"
    /\ Len(host_triples) >= 2
    /\ \E c \in DOMAIN data : \E h \in 1..Len(host_triples) :
          LET X == host_triples[h].triple
              IdsOf == {id \in DOMAIN dependency_resolve :
                           CrateId(dependency_resolve[id].package) = c}
              At(location) ==
                  UNION {UNION {ResolvedOfPair(p)[e].features :
                                   e \in {x \in DOMAIN ResolvedOfPair(p) :
                                             x[1] \in IdsOf /\ x[2] = location}} :
                            p \in (1..Len(host_triples)) \X (1..Len(target_triples))}
          IN  /\ IdsOf \cap workspace_members = {}
              /\ X \in DOMAIN data[c]
              /\ \E f, g \in data[c][X].features :
                    /\ f \in At("Host") /\ f \notin At("Target")
                    /\ g \in At("Target") /\ g \notin At("Host")

----------------------------------------------------------------------------
(* No supplied triple has host tools: claim C40                            *)

\* C40, as stated: when no supplied triple is in RUSTC_TRIPLES_WITH_HOST_TOOLS,
\* execute, once begun, makes no call of resolve, writes nothing into data,
\* can return at once and returns the empty map; it does not panic.
C40_NoHostNoCall ==
    (Range(triples) \cap Range(RUSTC_TRIPLES_WITH_HOST_TOOLS) = {} /\ pc # "execute") =>
        /\ pc \in {"pairs", "done"}
        /\ host_triples = <<>>
        /\ resolved = <<>> /\ stack = <<>> /\ last = NoVisit
        /\ data = <<>>
        /\ pc = "pairs" => ENABLED ExecuteFinish
        /\ pc = "done" => output = <<>>

\* C40: when every supplied triple is known to cfg_expr and none is in
\* RUSTC_TRIPLES_WITH_HOST_TOOLS, execute, once begun, makes no call of
\* resolve, writes nothing into data, can return at once and returns the
\* empty map; it does not panic.
C40_KnownNoHostNoCall ==
    (/\ Range(triples) \cap Range(RUSTC_TRIPLES_WITH_HOST_TOOLS) = {}
     /\ \A t \in Range(triples) : GetBuiltinTargetByTriple(t) # None
     /\ pc # "execute") =>
        /\ pc \in {"pairs", "done"}
        /\ host_triples = <<>>
        /\ resolved = <<>> /\ stack = <<>> /\ last = NoVisit
        /\ data = <<>>
        /\ pc = "pairs" => ENABLED ExecuteFinish
        /\ pc = "done" => output = <<>>

\* execute has returned the empty map for wasm32-unknown-unknown alone, on a
\* workspace whose member has dependencies
C40_Witness ==
    /\ pc = "done"
    /\ triples = <<"wasm32-unknown-unknown">>
    /\ target_triples # <<>>
    /\ output = <<>>
    /\ \E id \in workspace_members : dependency_resolve[id].deps # <<>>

====
